---- MODULE Spec2Model ----
(***************************************************************************)
(* ORCCortex document structuring pipeline: upload_pdf creates one problem *)
(* record per PDF page, process_uploaded_file_pages converts the pages to  *)
(* markdown and writes each page's outcome to its record.                  *)
(*                                                                         *)
(* Text is a sequence of one-character strings.  A character outside ASCII *)
(* and the backquote are written by their code point: "U+2264", "U+0060".  *)
(***************************************************************************)
EXTENDS Integers, Sequences, FiniteSets, TLC

\* Bounds of the model.
MaxPages == 2
MaxFaults == 1

\* Program constant: a header line is shorter than this.
HeaderMaxLen == 100

-----------------------------------------------------------------------------
(* Characters and the str methods the services use.                        *)

UpperSeq ==
  <<"A","B","C","D","E","F","G","H","I","J","K","L","M",
    "N","O","P","Q","R","S","T","U","V","W","X","Y","Z">>
LowerSeq ==
  <<"a","b","c","d","e","f","g","h","i","j","k","l","m",
    "n","o","p","q","r","s","t","u","v","w","x","y","z">>
UpperChars == {UpperSeq[i] : i \in 1..26}
LowerChars == {LowerSeq[i] : i \in 1..26}
Letters == UpperChars \cup LowerChars
Digits == {"0","1","2","3","4","5","6","7","8","9"}
AlNum == Letters \cup Digits
WordChars == AlNum \cup {"_"}
Whitespace == {" ", "\t", "\n", "\r"}

\* str.lower() on one character and on a text.
LowerChar(c) ==
  IF c \in UpperChars THEN LowerSeq[CHOOSE i \in 1..26 : UpperSeq[i] = c] ELSE c
Lower(s) == [i \in 1..Len(s) |-> LowerChar(s[i])]

\* str.isupper(): at least one cased character and no lowercase one.
IsUpper(s) ==
  /\ \E i \in 1..Len(s) : s[i] \in UpperChars
  /\ \A i \in 1..Len(s) : s[i] \notin LowerChars

RECURSIVE LStrip(_)
LStrip(s) == IF s # <<>> /\ Head(s) \in Whitespace THEN LStrip(Tail(s)) ELSE s
RECURSIVE RStrip(_)
RStrip(s) ==
  IF s # <<>> /\ s[Len(s)] \in Whitespace THEN RStrip(SubSeq(s, 1, Len(s) - 1)) ELSE s
\* str.strip()
Strip(s) == RStrip(LStrip(s))

\* sub in s
Contains(s, sub) ==
  \E i \in 0..(Len(s) - Len(sub)) : SubSeq(s, i + 1, i + Len(sub)) = sub

\* s.split('\n')
RECURSIVE SplitLines(_)
SplitLines(s) ==
  IF \A i \in 1..Len(s) : s[i] # "\n"
  THEN <<s>>
  ELSE LET k == CHOOSE i \in 1..Len(s) :
                  s[i] = "\n" /\ \A j \in 1..(i - 1) : s[j] # "\n"
       IN <<SubSeq(s, 1, k - 1)>> \o SplitLines(SubSeq(s, k + 1, Len(s)))

\* '\n'.join(lines)
RECURSIVE JoinLines(_)
JoinLines(lines) ==
  IF lines = <<>> THEN <<>>
  ELSE IF Len(lines) = 1 THEN lines[1]
  ELSE lines[1] \o <<"\n">> \o JoinLines(Tail(lines))

\* Length of the run of newlines that starts s.
RECURSIVE NewlineRun(_)
NewlineRun(s) == IF s # <<>> /\ Head(s) = "\n" THEN 1 + NewlineRun(Tail(s)) ELSE 0

\* Mutant: the runs of newlines are left as they are.
KeepNewlines(s) == s

\* re.sub(r'\n{3,}', '\n\n', s)
RECURSIVE CollapseNewlines(_)
CollapseNewlines(s) ==
  IF s = <<>> THEN <<>>
  ELSE LET k == NewlineRun(s) IN
       IF k >= 3 THEN <<"\n", "\n">> \o CollapseNewlines(SubSeq(s, k + 1, Len(s)))
       ELSE IF k >= 1 THEN SubSeq(s, 1, k) \o CollapseNewlines(SubSeq(s, k + 1, Len(s)))
       ELSE LET m == IF \A i \in 1..Len(s) : s[i] # "\n" THEN Len(s)
                     ELSE (CHOOSE i \in 1..Len(s) :
                             s[i] = "\n" /\ \A j \in 1..(i - 1) : s[j] # "\n") - 1
            IN SubSeq(s, 1, m) \o CollapseNewlines(SubSeq(s, m + 1, Len(s)))

-----------------------------------------------------------------------------
(* MarkdownOCRService._contains_math and _text_to_markdown                 *)

HeaderKeywords ==
  { <<"q","u","e","s","t","i","o","n">>, <<"p","r","o","b","l","e","m">>,
    <<"e","x","e","r","c","i","s","e">>, <<"p","a","r","t">>,
    <<"s","e","c","t","i","o","n">> }

MathFunctions ==
  { <<"s","i","n">>, <<"c","o","s">>, <<"t","a","n">>, <<"l","o","g">>,
    <<"l","n">>, <<"e","x","p">>, <<"s","q","r","t">> }

\* [=<>U+2264 U+2265 U+2260 U+00B1 U+2213 U+00D7 U+00F7 U+220F U+2211 U+222B U+2202 U+2207]
MathOperators ==
  {"=", "<", ">", "U+2264", "U+2265", "U+2260", "U+00B1", "U+2213", "U+00D7",
   "U+00F7", "U+220F", "U+2211", "U+222B", "U+2202", "U+2207"}

\* [0-9a-zA-Z\s\+\-\*/\^\(\)]
EquationTail == AlNum \cup Whitespace \cup {"+", "-", "*", "/", "^", "(", ")"}

\* The seven math_indicators, each searched with re.IGNORECASE.
MathIndicator(n, t) ==
  CASE n = 1 -> \E i \in 1..Len(t) : t[i] \in MathOperators
    [] n = 2 -> \E i \in 1..(Len(t) - 2) :
                  t[i] \in Digits /\ t[i + 1] = "/" /\ t[i + 2] \in Digits
    [] n = 3 -> \E i \in 1..(Len(t) - 2) :
                  t[i] \in Letters /\ t[i + 1] = "^" /\ t[i + 2] \in AlNum
    [] n = 4 -> \E i \in 1..(Len(t) - 1) : t[i] = "U+221A" /\ t[i + 1] \in AlNum
    [] n = 5 -> \E f \in MathFunctions : Contains(Lower(t), f \o <<"(">>)
    [] n = 6 -> \E i \in 1..(Len(t) - 2) :
                  t[i] = "$" /\ t[i + 1] # "$"
                  /\ \E j \in (i + 2)..Len(t) :
                       t[j] = "$" /\ \A k \in (i + 1)..(j - 1) : t[k] # "$"
    [] n = 7 -> \E i \in 1..Len(t) : \E j \in (i + 1)..(Len(t) - 1) :
                  /\ t[i] \in Letters
                  /\ \A k \in (i + 1)..(j - 1) : t[k] \in Whitespace
                  /\ t[j] = "="
                  /\ t[j + 1] \in EquationTail

contains_math(t) == \E n \in 1..7 : MathIndicator(n, t)

\* re.match(r'^[A-Z][^.]*[^.]$', line)
CapitalNoPeriod(line) ==
  /\ Len(line) >= 2
  /\ line[1] \in UpperChars
  /\ \A i \in 2..Len(line) : line[i] # "."

\* Mutant: the header test does not look at the line that follows.
IsHeader_ignores_next_line(lines, i) ==
  LET line == Strip(lines[i]) IN
  /\ Len(line) < HeaderMaxLen
  /\ \/ IsUpper(line)
     \/ \E w \in HeaderKeywords : Contains(Lower(line), w)
     \/ CapitalNoPeriod(line)

\* The header test of lines 111-115; lines is text.split('\n'), line = lines[i].strip().
IsHeader(lines, i) ==
  LET line == Strip(lines[i]) IN
  /\ Len(line) < HeaderMaxLen
  /\ i < Len(lines)
  /\ Strip(lines[i + 1]) # <<>>
  /\ \/ IsUpper(line)
     \/ \E w \in HeaderKeywords : Contains(Lower(line), w)
     \/ CapitalNoPeriod(line)

\* Length of the longest prefix of s made of characters of class.
RECURSIVE PrefixRun(_, _)
PrefixRun(s, class) ==
  IF s # <<>> /\ Head(s) \in class THEN 1 + PrefixRun(Tail(s), class) ELSE 0

\* re.match(r'^\d+[\.)]\s*', line)
IsNumbered(line) ==
  LET d == PrefixRun(line, Digits) IN
  d >= 1 /\ Len(line) > d /\ line[d + 1] \in {".", ")"}

\* re.match(r'^[a-z][\.)]\s*', line)
IsLettered(line) ==
  Len(line) >= 2 /\ line[1] \in LowerChars /\ line[2] \in {".", ")"}

\* re.match(r'^[-U+2022*]\s*', line) or re.match(r'^\(\w+\)\s*', line)
IsListItem(line) ==
  \/ Len(line) >= 1 /\ line[1] \in {"-", "U+2022", "*"}
  \/ /\ Len(line) >= 3
     /\ line[1] = "("
     /\ LET w == PrefixRun(Tail(line), WordChars) IN
        w >= 1 /\ Len(line) >= w + 2 /\ line[w + 2] = ")"

\* Mutant: the numbered-item test comes before the header test.
LineCategory_numbered_first(lines, i) ==
  LET line == Strip(lines[i]) IN
  IF line = <<>> THEN "blank"
  ELSE IF IsNumbered(line) THEN "numbered"
  ELSE IF IsHeader(lines, i) THEN "header"
  ELSE IF IsLettered(line) THEN "lettered"
  ELSE IF contains_math(line) THEN "math"
  ELSE IF IsListItem(line) THEN "list"
  ELSE "prose"

\* The branch of the loop of lines 104-141 that line i takes.
LineCategory(lines, i) ==
  LET line == Strip(lines[i]) IN
  IF line = <<>> THEN "blank"
  ELSE IF IsHeader(lines, i) THEN "header"
  ELSE IF IsNumbered(line) THEN "numbered"
  ELSE IF IsLettered(line) THEN "lettered"
  ELSE IF contains_math(line) THEN "math"
  ELSE IF IsListItem(line) THEN "list"
  ELSE "prose"

\* Mutant: a numbered item gets the prefix of a header.
RenderLine_numbered_as_header(category, line) ==
  CASE category = "blank" -> <<>>
    [] category = "header" -> <<"#", "#", " ">> \o line
    [] category = "numbered" -> <<"#", "#", " ">> \o line
    [] category = "lettered" -> <<"*", "*">> \o line \o <<"*", "*">>
    [] category = "math" -> <<"U+0060">> \o line \o <<"U+0060">>
    [] category = "list" -> <<"-", " ">> \o line
    [] OTHER -> line

\* What that branch appends to markdown_lines.
RenderLine(category, line) ==
  CASE category = "blank" -> <<>>
    [] category = "header" -> <<"#", "#", " ">> \o line
    [] category = "numbered" -> <<"#", "#", "#", " ">> \o line
    [] category = "lettered" -> <<"*", "*">> \o line \o <<"*", "*">>
    [] category = "math" -> <<"U+0060">> \o line \o <<"U+0060">>
    [] category = "list" -> <<"-", " ">> \o line
    [] OTHER -> line

EmptyPage == <<"*","(","E","m","p","t","y"," ","p","a","g","e",")","*">>

\* markdown_lines when the loop of lines 104-141 is over.
markdown_lines(lines) ==
  [i \in 1..Len(lines) |-> RenderLine(LineCategory(lines, i), Strip(lines[i]))]

text_to_markdown(text) ==
  IF Strip(text) = <<>> THEN EmptyPage
  ELSE Strip(CollapseNewlines(JoinLines(markdown_lines(SplitLines(text)))))

-----------------------------------------------------------------------------
(* MarkdownOCRService._ocr_page.  A page says what each library call does  *)
(* on it: get_text, get_pixmap and the three image_to_string calls either  *)
(* return a text or raise.                                                 *)

Returns(t) == [raises |-> FALSE, text |-> t]
Raises(msg) == [raises |-> TRUE, message |-> msg]

ocr_page(page) ==
  IF page.pixmap_raises THEN <<>>
  ELSE IF page.ocr[1].raises THEN <<>>
  ELSE IF Strip(page.ocr[1].text) # <<>> THEN page.ocr[1].text
  ELSE IF page.ocr[2].raises THEN <<>>
  ELSE IF Strip(page.ocr[2].text) # <<>> THEN page.ocr[2].text
  ELSE IF page.ocr[3].raises THEN <<>>
  ELSE page.ocr[3].text

\* Lines 35-48 of convert_pdf_to_markdown for a page whose get_text returns.
page_markdown(page) ==
  LET direct == page.get_text.text
      page_text == IF Strip(direct) = <<>> THEN ocr_page(page) ELSE direct
  IN text_to_markdown(Strip(page_text))

\* An exception: its class and its str().
Exception(class, msg) == [class |-> class, message |-> msg]
NoException == Exception("none", "")

\* utils/exceptions.py: the status code each exception class sets.
status_code(e) ==
  CASE e.class = "AuthenticationError" -> 401
    [] e.class = "AuthorizationError" -> 403
    [] e.class = "ValidationError" -> 400
    [] e.class \in {"FileProcessingError", "OCRError", "MathSolvingError"} -> 422
    [] OTHER -> 500

ValidationError(msg) == Exception("ValidationError", msg)
AuthorizationError(msg) == Exception("AuthorizationError", msg)

\* fastapi.HTTPException and the response it becomes.
HTTPException(code, detail) == [status_code |-> code, detail |-> detail]

\* create_http_exception, lines 49-54.
create_http_exception(e) == HTTPException(status_code(e), e.message)

\* A response with status 200 and its body.
Ok(body) == [status_code |-> 200, body |-> body]

\* No request has been answered.
NoResponse == [status_code |-> 0]

\* Mutant: the exception is raised again with the message of its cause alone.
OCRError_without_prefix(msg) == Exception("OCRError", msg)

\* raise OCRError(f"PDF to markdown conversion failed: {str(e)}")
OCRError(msg) == Exception("OCRError", "PDF to markdown conversion failed: " \o msg)

-----------------------------------------------------------------------------
(* The uploads the model draws from.                                       *)

NoOcr == <<Raises("tesseract is not installed"), Raises("tesseract is not installed"),
           Raises("tesseract is not installed")>>

\* A page with a text layer: a header line and an equation.
TextPage ==
  [get_text |-> Returns(<<"A", "\n", "x", "=", "1">>), pixmap_raises |-> FALSE,
   ocr |-> NoOcr]
\* A scanned page whose text layer is blank and on which recognition raises.
OcrRaisesPage ==
  [get_text |-> Returns(<<" ", "\n">>), pixmap_raises |-> FALSE, ocr |-> NoOcr]
\* A scanned page on which every configuration recognises nothing.
OcrNothingPage ==
  [get_text |-> Returns(<<>>), pixmap_raises |-> FALSE,
   ocr |-> <<Returns(<<>>), Returns(<<" ", "\n">>), Returns(<<>>)>>]
\* A page whose get_text raises, with an exception whose str() is empty.
BrokenPage ==
  [get_text |-> Raises(""), pixmap_raises |-> FALSE, ocr |-> NoOcr]

PageKinds == {TextPage, OcrRaisesPage, OcrNothingPage, BrokenPage}

\* What fitz.open finds in the uploaded bytes: a document of 0..MaxPages pages,
\* or bytes that are no PDF, on which fitz.open raises.
NotAPdf == [valid |-> FALSE, pages |-> <<>>]
Files ==
  {NotAPdf} \cup
  {[valid |-> TRUE, pages |-> ps] : ps \in UNION {[1..n -> PageKinds] : n \in 0..MaxPages}}

Users == {"u1", "u2"}
\* The user who uploads, and the statuses a PATCH request asks for.
Uploaders == {"u1"}
PatchStatuses == {"pending", "completed"}
ProblemStatus == {"pending", "processing", "completed", "failed"}
Terminal == {"completed", "failed"}

\* str(uuid.uuid4()): a fresh identifier, the n-th one drawn.
uuid4(n) == <<"uuid", n>>

OpenErrorMessage == "cannot open file"
RemoveErrorMessage == "[Errno 13] Permission denied"

NoTextExtracted ==
  <<
    "*","(","N","o"," ","t","e","x","t"," ","e","x","t","r","a","c","t",
    "e","d"," ","-"," ","P","D","F"," ","m","a","y"," ","c","o","n","t",
    "a","i","n"," ","i","m","a","g","e","s"," ","o","r"," ","c","o","m",
    "p","l","e","x"," ","f","o","r","m","a","t","t","i","n","g",")","*"
  >>

-----------------------------------------------------------------------------
(* State.                                                                  *)

VARIABLES
  file,          \* the uploaded bytes, as fitz.open finds them
  fileExists,    \* local_file_path exists in UPLOAD_DIR
  owner,         \* user_id of the upload
  store,         \* the Firestore collection 'problems': id -> fields
  upc,           \* where upload_pdf is
  page_count,    \* upload_pdf: page_count
  problem_ids,   \* upload_pdf: problem_ids, handed to the background task
  marked,        \* upload_pdf: ids passed by the loop of lines 258-265
  tpc,           \* where process_uploaded_file_pages is
  page_results,  \* convert_pdf_to_markdown: page_results
  idx,           \* items passed by the loop the task is in
  exc,           \* the exception e the task caught at line 84
  writes,        \* history: the update_problem calls of upload and task, in order
  faults,        \* history: failures of the store and the file system so far
  call,          \* the call of a service method that is running or has returned
  request,       \* the upload request: file.filename and file.size
  users,         \* the Firestore collection 'users': the uids stored
  solutions,     \* the Firestore collection 'solutions': id -> fields
  solve_tasks,   \* the background tasks solve_problem has added
  response,      \* the response to the last request that was answered
  requests,      \* history: requests to the problem endpoints so far
  llama_model,   \* GPTOSSService.llama_model
  model_lock,    \* GPTOSSService._model_lock: the coroutine that holds it
  gpc,           \* where each solve_problem coroutine of GPTOSSService is
  upc_unload,    \* where the unload_model coroutine is
  constructed,   \* history: models constructed since the last unload_model
  unloads        \* history: calls of unload_model so far

\* The state of the endpoints and of the model service.
apiVars == <<request, users, solutions, solve_tasks, response, requests>>
gptVars == <<llama_model, model_lock, gpc, upc_unload, constructed, unloads>>

vars ==
  <<file, fileExists, owner, store, upc, page_count, problem_ids, marked,
    tpc, page_results, idx, exc, writes, faults, call, apiVars, gptVars>>

\* No service method has been called.
NoCall == [fn |-> "none"]

\* The state of an upload and of its background task.
pipelineVars ==
  <<file, fileExists, owner, store, upc, page_count, problem_ids, marked,
    tpc, page_results, idx, exc, writes, faults>>

uploadVars == <<upc, page_count, problem_ids, marked>>
taskVars == <<tpc, page_results, idx, exc>>

-----------------------------------------------------------------------------
(* FirebaseService                                                         *)

\* save_problem, lines 132-153: the fields problem_ref.set writes.
save_problem(st, problem_data) ==
  (problem_data.id :>
     [id |-> problem_data.id, user_id |-> problem_data.user_id,
      math_expressions |-> <<>>, status |-> problem_data.status]) @@ st

\* update_problem, lines 171-184.  dbOk is FALSE when self._db is unset or
\* problem_ref.update raises; update also raises on a document that does not
\* exist.  Every exception is caught and reported as False: the call never raises.
update_problem(st, problem_id, update_data, dbOk) ==
  IF dbOk /\ problem_id \in DOMAIN st
  THEN [raised |-> FALSE, ok |-> TRUE,
        store |-> [st EXCEPT ![problem_id] = update_data @@ @]]
  ELSE [raised |-> FALSE, ok |-> FALSE, store |-> st]

\* One entry of the history of update_problem calls.
Call(by, problem_id, update_data, ok) ==
  [by |-> by, id |-> problem_id, data |-> update_data, ok |-> ok]

\* The environment may fail a call while the fault budget lasts.
MayFail(ok) == ok \/ faults < MaxFaults
Fault(ok) == IF ok THEN faults ELSE faults + 1

-----------------------------------------------------------------------------
(* routers/upload.py: upload_pdf                                           *)

\* settings.MAX_FILE_SIZE
MAX_FILE_SIZE == 10485760

\* str.endswith
EndsWith(s, suffix) ==
  Len(s) >= Len(suffix) /\ SubSeq(s, Len(s) - Len(suffix) + 1, Len(s)) = suffix

DotPdf == <<".", "p", "d", "f">>

\* An upload request: file.filename, empty when there is none, and file.size, 0
\* when it is None or 0.
UploadRequest(filename, size) == [filename |-> filename, size |-> size]
NoRequest == UploadRequest(<<>>, -1)

\* The requests the model draws from: no filename, another extension, no
\* extension, a PDF above the maximum size; a PDF of the maximum size with an
\* upper-case extension and a PDF whose size is not known.
UploadRequests ==
  { UploadRequest(<<>>, 0),
    UploadRequest(<<"a", ".", "t", "x", "t">>, 1),
    UploadRequest(<<"p", "d", "f">>, 1),
    UploadRequest(<<"a", ".", "p", "d", "f">>, MAX_FILE_SIZE + 1),
    UploadRequest(<<"A", ".", "P", "d", "F">>, MAX_FILE_SIZE),
    UploadRequest(<<"a", ".", "p", "d", "f">>, 0) }

\* Mutant: the extension of the file name is not looked at.
validate_upload_any_extension(rq) ==
  IF rq.filename = <<>> THEN ValidationError("No file provided")
  ELSE IF rq.size # 0 /\ rq.size > MAX_FILE_SIZE
  THEN ValidationError("File size exceeds maximum allowed size")
  ELSE NoException

\* Lines 151-160 of upload_pdf and 300-308 of upload_pdf_single: the exception
\* the validation raises, NoException when it raises none.
validate_upload(rq) ==
  IF rq.filename = <<>> THEN ValidationError("No file provided")
  ELSE IF ~EndsWith(Lower(rq.filename), DotPdf)
  THEN ValidationError("Only PDF files are allowed")
  ELSE IF rq.size # 0 /\ rq.size > MAX_FILE_SIZE
  THEN ValidationError("File size exceeds maximum allowed size")
  ELSE NoException

\* Bounds: the concurrent solve_problem calls on the one GPTOSSService and the
\* calls of unload_model.
MaxCallers == 2
MaxUnloads == 2
Callers == 1..MaxCallers

\* What _model_lock holds: the number of the caller, or one of these.
Unlocked == 0
Unloader == -1

\* fitz.open(file_path) raises on bytes that are no PDF.
fitz_open_raises(f) == ~f.valid

\* Lines 30-39.
get_pdf_page_count(f) == IF fitz_open_raises(f) THEN 1 ELSE Len(f.pages)

Init ==
  /\ file = NotAPdf
  /\ fileExists = FALSE
  /\ owner = "u1"
  /\ store = <<>>
  /\ upc = "idle"
  /\ page_count = 0
  /\ problem_ids = <<>>
  /\ marked = 0
  /\ tpc = "none"
  /\ page_results = <<>>
  /\ idx = 0
  /\ exc = NoException
  /\ writes = <<>>
  /\ faults = 0
  /\ call = NoCall
  /\ request = NoRequest
  /\ users = {}
  /\ solutions = <<>>
  /\ solve_tasks = <<>>
  /\ response = NoResponse
  /\ requests = 0
  /\ llama_model = "None"
  /\ model_lock = Unlocked
  /\ gpc = [c \in Callers |-> "idle"]
  /\ upc_unload = "idle"
  /\ constructed = 0
  /\ unloads = 0

\* Lines 151-160 and 279-280: the validation raises, create_http_exception
\* turns the exception into the response.
upload_pdf_rejected(user_id, rq) ==
  /\ upc = "idle"
  /\ validate_upload(rq) # NoException
  /\ request' = rq
  /\ response' = create_http_exception(validate_upload(rq))
  /\ upc' = "rejected"
  /\ UNCHANGED <<file, fileExists, owner, store, page_count, problem_ids, marked,
                 taskVars, writes, faults>>
  /\ UNCHANGED <<call, users, solutions, solve_tasks, requests, gptVars>>

\* upload_pdf_single, lines 299-308 and 404-405: the same validation.  A request
\* that passes it starts the single-document pipeline, which is not modelled.
upload_pdf_single_rejected(user_id, rq) ==
  /\ upc = "idle"
  /\ validate_upload(rq) # NoException
  /\ request' = rq
  /\ response' = create_http_exception(validate_upload(rq))
  /\ upc' = "rejected_single"
  /\ UNCHANGED <<file, fileExists, owner, store, page_count, problem_ids, marked,
                 taskVars, writes, faults>>
  /\ UNCHANGED <<call, users, solutions, solve_tasks, requests, gptVars>>

\* Lines 151-191: a valid request; save_user may raise, which is only printed;
\* the file is written and its pages counted.
upload_pdf_save_file(user_id, rq, f, user_saved) ==
  /\ upc = "idle"
  /\ validate_upload(rq) = NoException
  /\ MayFail(user_saved)
  /\ request' = rq
  /\ users' = IF user_saved THEN users \cup {user_id} ELSE users
  /\ file' = f
  /\ fileExists' = TRUE
  /\ owner' = user_id
  /\ page_count' = get_pdf_page_count(f)
  /\ upc' = "create"
  /\ faults' = Fault(user_saved)
  /\ UNCHANGED <<store, problem_ids, marked, taskVars, writes>>
  /\ UNCHANGED <<call, solutions, solve_tasks, response, requests, gptVars>>

\* Lines 197-247, one iteration: save_problem may raise, the id is kept anyway.
upload_pdf_create_problem(saved) ==
  /\ upc = "create"
  /\ Len(problem_ids) < page_count
  /\ MayFail(saved)
  /\ LET problem_id == uuid4(Len(problem_ids) + 1)
         problem == [id |-> problem_id, user_id |-> owner, status |-> "pending"]
     IN /\ store' = IF saved THEN save_problem(store, problem) ELSE store
        /\ problem_ids' = Append(problem_ids, problem_id)
  /\ faults' = Fault(saved)
  /\ UNCHANGED <<file, fileExists, owner, upc, page_count, marked, taskVars, writes>>
  /\ UNCHANGED <<call, apiVars, gptVars>>

\* Lines 249-255: background_tasks.add_task; the task runs after the response.
upload_pdf_add_task ==
  /\ upc = "create"
  /\ Len(problem_ids) = page_count
  /\ upc' = "mark"
  /\ marked' = 0
  /\ tpc' = "registered"
  /\ UNCHANGED <<file, fileExists, owner, store, page_count, problem_ids,
                 page_results, idx, exc, writes, faults>>
  /\ UNCHANGED <<call, apiVars, gptVars>>

\* Lines 258-265, one iteration.
upload_pdf_mark_processing(dbOk) ==
  /\ upc = "mark"
  /\ marked < Len(problem_ids)
  /\ MayFail(dbOk)
  /\ LET problem_id == problem_ids[marked + 1]
         update_data == [status |-> "processing"]
         r == update_problem(store, problem_id, update_data, dbOk)
     IN /\ store' = r.store
        /\ writes' = Append(writes, Call("upload", problem_id, update_data, r.ok))
  /\ marked' = marked + 1
  /\ faults' = Fault(dbOk)
  /\ UNCHANGED <<file, fileExists, owner, upc, page_count, problem_ids, taskVars>>
  /\ UNCHANGED <<call, apiVars, gptVars>>

\* Lines 267-277: the response is sent.
upload_pdf_return ==
  /\ upc = "mark"
  /\ marked = Len(problem_ids)
  /\ upc' = "responded"
  /\ UNCHANGED <<file, fileExists, owner, store, page_count, problem_ids, marked,
                 taskVars, writes, faults>>
  /\ UNCHANGED <<call, apiVars, gptVars>>

-----------------------------------------------------------------------------
(* services/markdown_ocr_service.py: convert_pdf_to_markdown, called at    *)
(* line 46 of process_uploaded_file_pages                                  *)

\* Mutant: the task starts while upload_pdf is still marking the records.
response_sent_or_marking == upc \in {"mark", "responded"}

\* BackgroundTasks runs the functions added at lines 250-255 once the response of
\* line 272 has been sent.
response_sent == upc = "responded"

\* Line 31: fitz.open; an exception leaves through line 53 to the task's handler.
convert_open ==
  /\ tpc = "registered"
  /\ response_sent
  /\ IF fitz_open_raises(file)
     THEN tpc' = "handler" /\ exc' = OCRError(OpenErrorMessage)
     ELSE tpc' = "convert" /\ exc' = exc
  /\ page_results' = <<>>
  /\ idx' = 0
  /\ UNCHANGED <<file, fileExists, owner, store, uploadVars, writes, faults>>
  /\ UNCHANGED <<call, apiVars, gptVars>>

\* Lines 34-48, one iteration.
convert_page ==
  /\ tpc = "convert"
  /\ Len(page_results) < Len(file.pages)
  /\ LET page_num == Len(page_results)
         page == file.pages[page_num + 1]
     IN IF page.get_text.raises
        THEN /\ tpc' = "handler"
             /\ exc' = OCRError(page.get_text.message)
             /\ page_results' = page_results
        ELSE /\ page_results' = Append(page_results, <<page_num + 1, page_markdown(page)>>)
             /\ UNCHANGED <<tpc, exc>>
  /\ idx' = 0
  /\ UNCHANGED <<file, fileExists, owner, store, uploadVars, writes, faults>>
  /\ UNCHANGED <<call, apiVars, gptVars>>

\* Lines 50-51: doc.close(); return page_results.
convert_return ==
  /\ tpc = "convert"
  /\ Len(page_results) = Len(file.pages)
  /\ tpc' = "pages"
  /\ idx' = 0
  /\ UNCHANGED <<file, fileExists, owner, store, uploadVars, page_results, exc,
                 writes, faults>>
  /\ UNCHANGED <<call, apiVars, gptVars>>

-----------------------------------------------------------------------------
(* routers/upload.py: process_uploaded_file_pages                          *)

\* Mutant: a page without text is reported as failed.
page_update_data_fails_empty(markdown_content) ==
  [markdown_content |->
     IF markdown_content = <<>> THEN NoTextExtracted ELSE markdown_content,
   status |->
     IF markdown_content # <<>> /\ Strip(markdown_content) # <<>>
        /\ markdown_content # EmptyPage
     THEN "completed"
     ELSE "failed"]

\* Lines 54-65: both branches of the test of line 54 set COMPLETED.
page_update_data(markdown_content) ==
  [markdown_content |->
     IF markdown_content = <<>> THEN NoTextExtracted ELSE markdown_content,
   status |->
     IF markdown_content # <<>> /\ Strip(markdown_content) # <<>>
        /\ markdown_content # EmptyPage
     THEN "completed"
     ELSE "completed"]

\* Lines 73-76.
corrective_update_data(db_error) ==
  [status |-> "failed", error_message |-> "Database update failed: " \o db_error]

\* Lines 89-92; e is str(e).
handler_update_data(e) == [status |-> "failed", error_message |-> e]

\* Mutant: a write the store refuses ends the loop and runs the handler.
after_page_write_stops(r, r2) == IF r.ok THEN "pages" ELSE "handler"

\* Lines 67-78: where the task is after the write of one page.  What
\* update_problem returns is not looked at, and an exception of either call is
\* caught at line 69 or 77: the loop of line 49 goes on.
after_page_write(r, r2) == "pages"

\* Mutant: every page is written to the record of the first page.
page_problem_id_first(ids, i) == ids[1]

\* Lines 50-51: problem_ids_with_pages[i], i counted from 0.
page_problem_id(ids, i) == ids[i + 1]

\* Lines 49-78, one iteration.  The except branch of line 69 is taken only when
\* update_problem raises.
process_page(dbOk, dbOk2) ==
  /\ tpc = "pages"
  /\ idx < Len(page_results)
  /\ MayFail(dbOk)
  /\ IF idx < Len(problem_ids)
     THEN LET problem_id == page_problem_id(problem_ids, idx)
              update_data == page_update_data(page_results[idx + 1][2])
              r == update_problem(store, problem_id, update_data, dbOk)
              fix == corrective_update_data("update failed")
              r2 == update_problem(r.store, problem_id, fix, dbOk2)
          IN /\ IF r.raised
                THEN /\ store' = r2.store
                     /\ writes' = writes \o <<Call("page", problem_id, update_data, r.ok),
                                              Call("corrective", problem_id, fix, r2.ok)>>
                ELSE /\ store' = r.store
                     /\ writes' = Append(writes, Call("page", problem_id, update_data, r.ok))
             /\ tpc' = after_page_write(r, r2)
     ELSE UNCHANGED <<store, writes, tpc>>
  /\ idx' = idx + 1
  /\ faults' = Fault(dbOk)
  /\ UNCHANGED <<file, fileExists, owner, uploadVars, page_results, exc>>
  /\ UNCHANGED <<call, apiVars, gptVars>>

\* Lines 80-82: os.remove may raise; the exception goes to the handler of line 84.
remove_file(removed) ==
  /\ tpc = "pages"
  /\ idx = Len(page_results)
  /\ MayFail(removed)
  /\ IF ~fileExists
     THEN tpc' = "done" /\ UNCHANGED <<fileExists, exc>>
     ELSE IF removed
     THEN tpc' = "done" /\ fileExists' = FALSE /\ exc' = exc
     ELSE /\ tpc' = "handler"
          /\ fileExists' = fileExists
          /\ exc' = Exception("PermissionError", RemoveErrorMessage)
  /\ idx' = 0
  /\ faults' = Fault(removed)
  /\ UNCHANGED <<file, owner, store, uploadVars, page_results, writes>>
  /\ UNCHANGED <<call, apiVars, gptVars>>

\* Lines 87-94, one iteration.
handle_exception(dbOk) ==
  /\ tpc = "handler"
  /\ idx < Len(problem_ids)
  /\ MayFail(dbOk)
  /\ LET problem_id == problem_ids[idx + 1]
         update_data == handler_update_data(exc.message)
         r == update_problem(store, problem_id, update_data, dbOk)
     IN /\ store' = r.store
        /\ writes' = Append(writes, Call("handler", problem_id, update_data, r.ok))
  /\ idx' = idx + 1
  /\ faults' = Fault(dbOk)
  /\ UNCHANGED <<file, fileExists, owner, uploadVars, tpc, page_results, exc>>
  /\ UNCHANGED <<call, apiVars, gptVars>>

\* The handler's loop is over: the task returns.
handler_return ==
  /\ tpc = "handler"
  /\ idx = Len(problem_ids)
  /\ tpc' = "done"
  /\ UNCHANGED <<file, fileExists, owner, store, uploadVars, page_results, idx, exc,
                 writes, faults>>
  /\ UNCHANGED <<call, apiVars, gptVars>>

-----------------------------------------------------------------------------
(* routers/problems.py: PATCH /problems/{user_id}/{problem_id}             *)

\* Lines 273-305, a request that changes the status; every other request is
\* answered with an error and changes nothing.
update_problem_status(requesting_user_id, user_id, problem_id, status) ==
  /\ requesting_user_id = user_id
  /\ problem_id \in DOMAIN store
  /\ store[problem_id].user_id = user_id
  /\ LET filtered_update == [status |-> status]
         r == update_problem(store, problem_id, filtered_update, TRUE)
     IN r.ok /\ store' = r.store
  /\ store' # store
  /\ UNCHANGED <<file, fileExists, owner, uploadVars, taskVars, writes, faults>>
  /\ UNCHANGED <<call, apiVars, gptVars>>

-----------------------------------------------------------------------------

Next ==
  \/ \E u \in Uploaders, rq \in UploadRequests : upload_pdf_rejected(u, rq)
  \/ \E u \in Uploaders, rq \in UploadRequests : upload_pdf_single_rejected(u, rq)
  \/ \E u \in Uploaders, rq \in UploadRequests, f \in Files, user_saved \in BOOLEAN :
       upload_pdf_save_file(u, rq, f, user_saved)
  \/ \E saved \in BOOLEAN : upload_pdf_create_problem(saved)
  \/ upload_pdf_add_task
  \/ \E dbOk \in BOOLEAN : upload_pdf_mark_processing(dbOk)
  \/ upload_pdf_return
  \/ convert_open
  \/ convert_page
  \/ convert_return
  \/ \E dbOk \in BOOLEAN : process_page(dbOk, TRUE)
  \/ \E removed \in BOOLEAN : remove_file(removed)
  \/ \E dbOk \in BOOLEAN : handle_exception(dbOk)
  \/ handler_return
  \/ \E u \in Users, v \in Users, p \in DOMAIN store, s \in PatchStatuses :
       update_problem_status(u, v, p, s)

Spec == Init /\ [][Next]_vars

-----------------------------------------------------------------------------
(* The service methods on their own.  A behaviour follows one call, made   *)
(* while no upload is in progress.  First lines 38-42 of                   *)
(* convert_pdf_to_markdown with _ocr_page, step by step.                   *)

\* The pages the text of which is asked for: the text layer is a text, blank or
\* raises; get_pixmap raises or not; each image_to_string call raises, reads
\* nothing, reads blanks, or reads a text that names its configuration.
TextLayers ==
  {Returns(<<"a", "b">>), Returns(<<" ", "\n">>), Returns(<<>>), Raises("bad page")}
Recognised(k) ==
  {Raises("tesseract failed"), Returns(<<>>), Returns(<<" ", "\n">>),
   Returns(<<"c", <<"1", "2", "3">>[k], "\n">>)}
ScannedPages ==
  {[get_text |-> g, pixmap_raises |-> b, ocr |-> <<o1, o2, o3>>] :
     g \in TextLayers, b \in BOOLEAN,
     o1 \in Recognised(1), o2 \in Recognised(2), o3 \in Recognised(3)}

\* The config argument of the three image_to_string calls, lines 67, 72 and 77.
OcrConfig == <<"", "--psm 6", "--oem 1 --psm 6">>

\* _ocr_page has not been called.
NotCalled == [raises |-> FALSE, text |-> <<>>, called |-> FALSE]

\* Lines 38-41: page.get_text(), and whether its text is blank.
page_get_text(page) ==
  /\ call = NoCall
  /\ LET frame == [fn |-> "page_text", page |-> page, pc |-> "get_text",
                   pixmap |-> FALSE, calls |-> <<>>, ocr |-> NotCalled,
                   page_text |-> <<>>]
     IN call' =
          IF page.get_text.raises THEN [frame EXCEPT !.pc = "raised"]
          ELSE IF Strip(page.get_text.text) # <<>>
          THEN [frame EXCEPT !.pc = "returned", !.page_text = page.get_text.text]
          ELSE [frame EXCEPT !.pc = "get_pixmap"]
  /\ UNCHANGED <<pipelineVars, apiVars, gptVars>>

\* Lines 59-62 and 84-86: an exception of get_pixmap, tobytes or Image.open is
\* caught and "" returned.
ocr_get_pixmap ==
  /\ call.fn = "page_text"
  /\ call.pc = "get_pixmap"
  /\ call' =
       IF call.page.pixmap_raises
       THEN [call EXCEPT !.pc = "returned", !.pixmap = TRUE,
                         !.ocr = Returns(<<>>), !.page_text = <<>>]
       ELSE [call EXCEPT !.pc = "image_to_string", !.pixmap = TRUE]
  /\ UNCHANGED <<pipelineVars, apiVars, gptVars>>

\* Mutant: a configuration that raises is skipped and the next one tried.
after_image_to_string_retries(k, outcome) ==
  IF outcome.raises
  THEN [returns |-> k = 3, text |-> <<>>]
  ELSE IF k < 3 /\ Strip(outcome.text) = <<>>
  THEN [returns |-> FALSE, text |-> <<>>]
  ELSE [returns |-> TRUE, text |-> outcome.text]

\* Mutant: every configuration is tried and the last output returned.
after_image_to_string_tries_all(k, outcome) ==
  IF outcome.raises
  THEN [returns |-> TRUE, text |-> <<>>]
  ELSE IF k < 3
  THEN [returns |-> FALSE, text |-> <<>>]
  ELSE [returns |-> TRUE, text |-> outcome.text]

\* Lines 65-82: what _ocr_page does with the outcome of its k-th
\* image_to_string call: return "" when it raised, return the text when it is
\* not blank or the call was the third, else go on to the next call.
after_image_to_string(k, outcome) ==
  IF outcome.raises
  THEN [returns |-> TRUE, text |-> <<>>]
  ELSE IF k < 3 /\ Strip(outcome.text) = <<>>
  THEN [returns |-> FALSE, text |-> <<>>]
  ELSE [returns |-> TRUE, text |-> outcome.text]

\* Lines 67-78, one image_to_string call.
ocr_image_to_string ==
  /\ call.fn = "page_text"
  /\ call.pc = "image_to_string"
  /\ LET k == Len(call.calls) + 1
         step == after_image_to_string(k, call.page.ocr[k])
         tried == [call EXCEPT !.calls = Append(@, OcrConfig[k])]
     IN call' =
          IF step.returns
          THEN [tried EXCEPT !.pc = "returned", !.ocr = Returns(step.text),
                             !.page_text = step.text]
          ELSE tried
  /\ UNCHANGED <<pipelineVars, apiVars, gptVars>>

-----------------------------------------------------------------------------
(* _text_to_markdown on its own.                                           *)

\* Bound: the texts handed to _text_to_markdown have up to MaxLines lines.
MaxLines == 4

SolveForX == <<"1", ")", " ", "S", "o", "l", "v", "e", " ", "f", "o", "r", " ", "x">>
Quadratic == <<"x", "^", "2", " ", "+", " ", "3", "x", " ", "-", " ", "2", " ", "=", " ", "0">>

\* The lines the texts are made of: a blank line, a numbered item, an equation,
\* an upper-case numbered equation, a lettered equation, a list item and a
\* sentence between blanks.
SampleLines ==
  { <<>>, SolveForX, Quadratic,
    <<"1", ".", " ", "X", "=", "2">>,
    <<"a", ")", " ", "x", "=", "1">>,
    <<"-", " ", "a", "b">>,
    <<" ", "a", "b", ".", " ">> }

\* Lines with the content of a header: upper case, a keyword, a capital first
\* letter and no period, and upper-case lines of 99 and of 100 characters.
Question1 == <<"Q", "U", "E", "S", "T", "I", "O", "N", " ", "1">>
HeaderLines ==
  { Question1,
    <<"s", "o", "l", "v", "e", " ", "t", "h", "e", " ", "p", "r", "o", "b", "l", "e", "m">>,
    <<"G", "i", "v", "e", "n", " ", "x">>,
    [i \in 1..(HeaderMaxLen - 1) |-> "A"],
    [i \in 1..HeaderMaxLen |-> "A"] }

\* What follows such a line: nothing, a blank line, a blank line and an
\* equation, an equation, a line of spaces, the line "QUESTION 1".
Followers ==
  { <<>>, << <<>> >>, << <<>>, Quadratic >>, << Quadratic >>, << <<" ", " ">> >>,
    << Question1 >> }

HeaderTexts == {JoinLines(<<h>> \o t) : h \in HeaderLines, t \in Followers}

Texts ==
  {JoinLines(ls) : ls \in UNION {[1..n -> SampleLines] : n \in 1..MaxLines}}
    \cup HeaderTexts

\* Lines 98-149, one call; lines, categories and markdown_lines are what the loop
\* of lines 104-141 has seen and built (nothing when line 99 returns).
text_to_markdown_call(text) ==
  /\ call = NoCall
  /\ LET lines == IF Strip(text) = <<>> THEN <<>> ELSE SplitLines(text)
     IN call' =
          [fn |-> "_text_to_markdown",
           text |-> text,
           lines |-> lines,
           categories |-> [i \in 1..Len(lines) |-> LineCategory(lines, i)],
           markdown_lines |-> markdown_lines(lines),
           result |-> text_to_markdown(text)]
  /\ UNCHANGED <<pipelineVars, apiVars, gptVars>>

-----------------------------------------------------------------------------
(* convert_single_pdf_to_markdown on its own.                              *)

\* Bound: the documents converted as a whole have up to MaxDocPages pages.
MaxDocPages == 3

Documents ==
  {NotAPdf} \cup
  {[valid |-> TRUE, pages |-> ps] :
     ps \in UNION {[1..n -> PageKinds] : n \in 0..MaxDocPages}}

DigitSeq == <<"0", "1", "2", "3", "4", "5", "6", "7", "8", "9">>

\* str(n) of an integer n >= 0
RECURSIVE Decimal(_)
Decimal(n) ==
  IF n < 10 THEN <<DigitSeq[n + 1]>>
  ELSE Decimal(n \div 10) \o <<DigitSeq[(n % 10) + 1]>>

\* What a call returns or raises.
Returned(value) == [raises |-> FALSE, exc |-> NoException, value |-> value]
Raised(e) == [raises |-> TRUE, exc |-> e, value |-> <<>>]

\* convert_pdf_to_markdown, lines 30-53, as one call: the exception of fitz.open
\* or of the first get_text that raises is raised again as OCRError, else the
\* list of (page_num, markdown_content) is returned.
convert_pdf_to_markdown(f) ==
  LET broken == {k \in 1..Len(f.pages) : f.pages[k].get_text.raises} IN
  IF fitz_open_raises(f) THEN Raised(OCRError(OpenErrorMessage))
  ELSE IF broken # {}
  THEN LET k == CHOOSE b \in broken : \A c \in broken : b <= c
       IN Raised(OCRError(f.pages[k].get_text.message))
  ELSE Returned([k \in 1..Len(f.pages) |-> <<k, page_markdown(f.pages[k])>>])

NoContentFound == <<"*", "(", "N", "o", " ", "c", "o", "n", "t", "e", "n", "t", " ", "f", "o", "u", "n", "d", ")", "*">>

\* f"# Page {page_num}"
PageHeader(page_num) == <<"#", " ", "P", "a", "g", "e", " ">> \o Decimal(page_num)

\* Mutant: a separator follows the last page too.
separator_after_every_page(page_num, n) == page_num <= n

\* Line 197: page_num < len(page_results)
separator_follows(page_num, n) == page_num < n

\* Lines 190-200: what the iterations from the k-th on append to markdown_parts.
RECURSIVE markdown_parts(_, _)
markdown_parts(results, k) ==
  IF k > Len(results) THEN <<>>
  ELSE LET page_num == results[k][1]
           markdown_content == results[k][2]
       IN (IF Len(results) > 1 THEN <<PageHeader(page_num), <<>>>> ELSE <<>>)
          \o <<markdown_content>>
          \o (IF separator_follows(page_num, Len(results))
              THEN << <<>>, <<"-", "-", "-">>, <<>> >>
              ELSE <<>>)
          \o markdown_parts(results, k + 1)

\* Lines 181-204.
convert_single_pdf_to_markdown(f) ==
  LET r == convert_pdf_to_markdown(f) IN
  IF r.raises
  THEN Raised(Exception("OCRError",
                        "Single PDF to markdown conversion failed: " \o r.exc.message))
  ELSE IF r.value = <<>> THEN Returned(NoContentFound)
  ELSE Returned(JoinLines(markdown_parts(r.value, 1)))

convert_single_call(f) ==
  /\ call = NoCall
  /\ call' = [fn |-> "convert_single_pdf_to_markdown", file |-> f,
              outcome |-> convert_single_pdf_to_markdown(f)]
  /\ UNCHANGED <<pipelineVars, apiVars, gptVars>>

-----------------------------------------------------------------------------
(* services/math_service.py: MathService.solve_expression on its own.  What *)
(* sympy does with an expression is an input of the call.                  *)

\* Bound: an equation has up to MaxVariables free symbols.
MaxVariables == 2

\* The replacements of lines 53-68, one character each.
Replacement(c) ==
  CASE c = "U+00D7" -> <<"*">>
    [] c = "U+00F7" -> <<"/">>
    [] c = "U+00B2" -> <<"*", "*", "2">>
    [] c = "U+00B3" -> <<"*", "*", "3">>
    [] c = "U+221A" -> <<"s", "q", "r", "t">>
    [] c = "U+03C0" -> <<"p", "i">>
    [] c = "U+221E" -> <<"o", "o">>
    [] c = "U+2264" -> <<"<", "=">>
    [] c = "U+2265" -> <<">", "=">>
    [] c = "U+2260" -> <<"!", "=">>
    [] c = "U+00B1" -> <<"+", "/", "-">>
    [] OTHER -> <<c>>

\* Lines 50 and 67-68: the "$" are removed and every character replaced.
RECURSIVE ReplaceSymbols(_)
ReplaceSymbols(s) ==
  IF s = <<>> THEN <<>>
  ELSE (IF Head(s) = "$" THEN <<>> ELSE Replacement(Head(s))) \o ReplaceSymbols(Tail(s))

\* re.sub(r'(a)(b)', r'\1*\2', s) for a character of class a before one of class b
RECURSIVE InsertTimes(_, _, _)
InsertTimes(s, a, b) ==
  IF Len(s) < 2 THEN s
  ELSE IF s[1] \in a /\ s[2] \in b
  THEN <<s[1], "*">> \o InsertTimes(Tail(s), a, b)
  ELSE <<s[1]>> \o InsertTimes(Tail(s), a, b)

\* _clean_expression, lines 47-74
clean_expression(expression) ==
  Strip(InsertTimes(InsertTimes(ReplaceSymbols(expression), Digits, Letters),
                    Letters, Digits))

\* len(cleaned_expr.split('='))
RECURSIVE CountParts(_)
CountParts(s) ==
  IF s = <<>> THEN 1
  ELSE (IF Head(s) = "=" THEN 1 ELSE 0) + CountParts(Tail(s))

\* None and a str.
None == [null |-> TRUE, str |-> ""]
PyStr(s) == [null |-> FALSE, str |-> s]

\* What sympy does in one call of solve_expression: which sympify call raises,
\* how many free symbols the equation has, what solve does for each (it raises,
\* finds nothing, finds solutions), whether left.equals(right), whether the
\* simplification raises, and whether the expression is recognised.
SympyRuns ==
  UNION {
    {[sympify_raises |-> sr, variables |-> v, solve |-> sv, equals |-> eq,
      simplify_raises |-> sf, polynomial |-> poly] :
       sr \in SUBSET {1, 2}, sv \in [1..v -> {"raises", "nothing", "solutions"}],
       eq \in BOOLEAN, sf \in BOOLEAN, poly \in BOOLEAN} :
    v \in 0..MaxVariables}

Expressions ==
  { <<"2", " ", "+", " ", "2">>,
    <<"$", "2", "x", " ", "=", " ", "4", "$">>,
    <<"x", " ", "U+2264", " ", "1">>,
    <<"a", " ", "=", " ", "b", " ", "=", " ", "c">>,
    <<"x", "U+00B2">>,
    <<>> }

\* Mutant: the error result of an equation carries no final_answer.
solve_equation_error_without_answer(parts, sympy) ==
  IF parts # 2 \/ sympy.sympify_raises # {}
  THEN [solution_steps |-> <<"Error solving equation: ...">>,
        error |-> PyStr("..."),
        expression_type |-> "equation"]
  ELSE LET found == {i \in 1..sympy.variables : sympy.solve[i] = "solutions"}
           steps == [i \in 1..sympy.variables |-> sympy.solve[i]]
       IN [solution_steps |->
             IF sympy.variables = 0
             THEN <<IF sympy.equals THEN "Equation is always true"
                                    ELSE "Equation has no solution">>
             ELSE SelectSeq(steps, LAMBDA x : x # "nothing"),
           final_answer |->
             IF sympy.variables = 0
             THEN PyStr(IF sympy.equals THEN "['True for all values']"
                                        ELSE "['No solution']")
             ELSE IF found # {} THEN PyStr("str(solutions)")
             ELSE PyStr("No solution found"),
           variables |-> sympy.variables,
           expression_type |-> "equation"]

\* _solve_equation, lines 94-144; parts is len(parts).  solution_steps holds, per
\* variable, "Solving for ..." or "Could not solve for ...".
solve_equation(parts, sympy) ==
  IF parts # 2 \/ sympy.sympify_raises # {}
  THEN [solution_steps |-> <<"Error solving equation: ...">>,
        final_answer |-> PyStr("Could not solve equation"),
        error |-> PyStr("..."),
        expression_type |-> "equation"]
  ELSE LET found == {i \in 1..sympy.variables : sympy.solve[i] = "solutions"}
           steps == [i \in 1..sympy.variables |-> sympy.solve[i]]
       IN [solution_steps |->
             IF sympy.variables = 0
             THEN <<IF sympy.equals THEN "Equation is always true"
                                    ELSE "Equation has no solution">>
             ELSE SelectSeq(steps, LAMBDA x : x # "nothing"),
           final_answer |->
             IF sympy.variables = 0
             THEN PyStr(IF sympy.equals THEN "['True for all values']"
                                        ELSE "['No solution']")
             ELSE IF found # {} THEN PyStr("str(solutions)")
             ELSE PyStr("No solution found"),
           variables |-> sympy.variables,
           expression_type |-> "equation"]

\* _simplify_expression, lines 146-187
simplify_expression(sympy) ==
  IF sympy.simplify_raises
  THEN [solution_steps |-> <<"Error simplifying expression: ...">>,
        final_answer |-> PyStr("str(expr)"),
        error |-> PyStr("...")]
  ELSE [solution_steps |-> <<"Simplified: ...">>,
        final_answer |-> PyStr("str(simplified)"),
        simplified_form |-> PyStr("str(simplified)"),
        variables |-> sympy.variables]

\* solve_expression, lines 15-45; dict.update is @@ with the new items first.
solve_expression(expression, sympy) ==
  LET cleaned_expr == clean_expression(expression)
      result == [original_expression |-> expression,
                 cleaned_expression |-> cleaned_expr,
                 solution_steps |-> <<>>,
                 final_answer |-> None,
                 expression_type |-> "unknown"]
  IN IF Contains(cleaned_expr, <<"=">>)
     THEN Returned(solve_equation(CountParts(cleaned_expr), sympy) @@ result)
     ELSE IF 1 \in sympy.sympify_raises
     THEN Returned([solution_steps |-> <<"Could not parse expression: ...">>,
                    final_answer |-> PyStr("Unable to parse expression")] @@ result)
     ELSE Returned(simplify_expression(sympy)
                   @@ [parsed_expression |-> PyStr("str(parsed_expr)"),
                       expression_type |->
                         IF sympy.polynomial THEN "polynomial" ELSE "unknown"]
                   @@ result)

solve_expression_call(expression, sympy) ==
  /\ call = NoCall
  /\ call' = [fn |-> "solve_expression", expression |-> expression, sympy |-> sympy,
              outcome |-> solve_expression(expression, sympy)]
  /\ UNCHANGED <<pipelineVars, apiVars, gptVars>>

-----------------------------------------------------------------------------

ServiceNext ==
  \/ \E page \in ScannedPages : page_get_text(page)
  \/ ocr_get_pixmap
  \/ ocr_image_to_string
  \/ \E text \in Texts : text_to_markdown_call(text)
  \/ \E f \in Documents : convert_single_call(f)
  \/ \E expression \in Expressions, sympy \in SympyRuns :
       solve_expression_call(expression, sympy)

ServiceSpec == Init /\ [][ServiceNext]_vars

-----------------------------------------------------------------------------
(* The status, preview, problem and solve endpoints.  The requests are made *)
(* once the upload has been answered and its background task is over.      *)

\* Bound: the requests of one behaviour.
MaxRequests == 3

\* dict.get(field, default)
Get(rec, field, default) == IF field \in DOMAIN rec THEN rec[field] ELSE default

\* A request: the caller's uid from the token, the user_id of the path (the
\* caller's where the path has none) and the problem id or ids.
Request(endpoint, uid, user_id, problem_id) ==
  [endpoint |-> endpoint, uid |-> uid, user_id |-> user_id, problem_id |-> problem_id]

\* raise HTTPException(status_code, detail) inside a handler's try block.
RaisedHTTP(code, detail) ==
  [class |-> "HTTPException", message |-> detail, status_code |-> code]

\* str(e); for an HTTPException Starlette gives "<status_code>: <detail>".
Str(e) ==
  IF e.class # "HTTPException" THEN e.message
  ELSE (CASE e.status_code = 400 -> "400: "
          [] e.status_code = 403 -> "403: "
          [] e.status_code = 404 -> "404: "
          [] OTHER -> "500: ") \o e.message

\* problems.py, lines 122-125, 188-191 and 307-310: except AuthorizationError,
\* then except Exception, which also catches the HTTPException raised in the try.
problems_except(e, prefix) ==
  IF e.class = "AuthorizationError" THEN create_http_exception(e)
  ELSE HTTPException(500, prefix \o Str(e))

\* solve.py, lines 165-168: except ValidationError, then except Exception.
solve_except(e) ==
  IF e.class = "ValidationError" THEN create_http_exception(e)
  ELSE HTTPException(500, "Solving failed: " \o Str(e))

\* upload.py, lines 454-457, and preview.py, lines 58-61: except HTTPException:
\* raise, then except Exception.
reraise_http(e, prefix) ==
  IF e.class = "HTTPException" THEN HTTPException(e.status_code, e.message)
  ELSE HTTPException(500, prefix \o Str(e))

\* get_problem and the two tests that follow it in every handler: the exception
\* raised, NoException when the record exists and user_id owns it.
check_owner(st, problem_id, user_id) ==
  IF problem_id \notin DOMAIN st THEN RaisedHTTP(404, "Problem not found")
  ELSE IF st[problem_id].user_id # user_id THEN RaisedHTTP(403, "Access denied")
  ELSE NoException

\* problems.py, lines 94-106: the test of the path's user_id comes first.
check_path_and_owner(st, uid, user_id, problem_id, msg) ==
  IF uid # user_id THEN AuthorizationError(msg)
  ELSE check_owner(st, problem_id, user_id)

\* The ids the requests name: the ids of the upload and one that was never made.
RequestIds == {problem_ids[k] : k \in 1..Len(problem_ids)} \cup {uuid4(0)}

\* The request rq is answered with rs; no upload is in progress.
Answer(rq, rs) ==
  /\ upc = "responded" /\ tpc = "done"
  /\ requests < MaxRequests
  /\ request' = rq
  /\ response' = rs
  /\ requests' = requests + 1

\* upload.py, lines 423-457.
get_upload_status(uid, problem_id) ==
  LET e == check_owner(store, problem_id, uid)
      problem_data == store[problem_id]
      markdown_content == Get(problem_data, "markdown_content", <<>>)
      extracted_text == Get(problem_data, "extracted_text", <<>>)
  IN /\ Answer(Request("get_upload_status", uid, uid, problem_id),
               IF e.class # "none" THEN reraise_http(e, "Status check failed: ")
               ELSE Ok([problem_id |-> problem_id,
                        status |-> Get(problem_data, "status", "unknown"),
                        extracted_text |->
                          IF markdown_content # <<>> /\ extracted_text = <<>>
                          THEN markdown_content ELSE extracted_text,
                        markdown_content |-> markdown_content,
                        math_expressions |-> Get(problem_data, "math_expressions", <<>>)]))
     /\ UNCHANGED <<pipelineVars, call, users, solutions, solve_tasks, gptVars>>

\* preview.py, line 55 and line 112.
is_ready_to_solve(problem_data) ==
  "markdown_content" \in DOMAIN problem_data /\ problem_data.status = "completed"

\* preview.py, lines 47-56 and 104-113: the fields of a preview.
preview_fields(problem_id, problem_data) ==
  [problem_id |-> problem_id,
   markdown_content |-> Get(problem_data, "markdown_content", <<>>),
   status |-> Get(problem_data, "status", "unknown"),
   is_ready_to_solve |-> is_ready_to_solve(problem_data)]

\* preview.py, lines 34-61.
preview_problem_content(uid, problem_id) ==
  LET e == check_owner(store, problem_id, uid) IN
  /\ Answer(Request("preview_problem_content", uid, uid, problem_id),
            IF e.class # "none" THEN reraise_http(e, "Preview failed: ")
            ELSE Ok(preview_fields(problem_id, store[problem_id])))
  /\ UNCHANGED <<pipelineVars, call, users, solutions, solve_tasks, gptVars>>

\* preview.py, lines 75-130; ids is the list parsed at line 79.
preview_multiple_problems(uid, ids) ==
  LET entry(problem_id) ==
        LET e == check_owner(store, problem_id, uid) IN
        IF e.class # "none" THEN [problem_id |-> problem_id, error |-> e.message]
        ELSE preview_fields(problem_id, store[problem_id])
  IN /\ Answer(Request("preview_multiple_problems", uid, uid, ids),
               IF ids = <<>>
               THEN create_http_exception(ValidationError("No problem IDs provided"))
               ELSE Ok([total_requested |-> Len(ids),
                        problems |-> [i \in 1..Len(ids) |-> entry(ids[i])]]))
     /\ UNCHANGED <<pipelineVars, call, users, solutions, solve_tasks, gptVars>>

\* problems.py, lines 92-125.
get_problem_details(uid, user_id, problem_id) ==
  LET e == check_path_and_owner(store, uid, user_id, problem_id,
                                "You can only access your own problems")
      problem_data == store[problem_id]
  IN /\ Answer(Request("get_problem_details", uid, user_id, problem_id),
               IF e.class # "none"
               THEN problems_except(e, "Failed to retrieve problem: ")
               ELSE Ok([id |-> Get(problem_data, "id", <<>>),
                        user_id |-> Get(problem_data, "user_id", ""),
                        extracted_text |-> Get(problem_data, "extracted_text", <<>>),
                        math_expressions |-> Get(problem_data, "math_expressions", <<>>),
                        status |-> Get(problem_data, "status", "pending")]))
     /\ UNCHANGED <<pipelineVars, call, users, solutions, solve_tasks, gptVars>>

\* problems.py, lines 157-165: FirebaseService has no method delete_solution.
\* With no solution of the problem the loop does nothing; otherwise its first
\* call raises AttributeError, caught at line 164.  No solution is deleted.
delete_solutions(sols, problem_id) == sols

\* problems.py, lines 141-191; dbOk is what firebase_service.delete_problem
\* returns.  The file in Firebase Storage is not modelled.
delete_problem(uid, user_id, problem_id, dbOk) ==
  LET e == check_path_and_owner(store, uid, user_id, problem_id,
                                "You can only delete your own problems")
      refused == RaisedHTTP(500, "Failed to delete problem from database")
  IN /\ MayFail(dbOk)
     /\ e.class # "none" => dbOk
     /\ Answer(Request("delete_problem", uid, user_id, problem_id),
               IF e.class # "none"
               THEN problems_except(e, "Failed to delete problem: ")
               ELSE IF ~dbOk THEN problems_except(refused, "Failed to delete problem: ")
               ELSE Ok([message |-> "Problem and associated data deleted successfully",
                        problem_id |-> problem_id]))
     /\ solutions' = IF e.class = "none" THEN delete_solutions(solutions, problem_id)
                     ELSE solutions
     /\ store' = IF e.class = "none" /\ dbOk
                 THEN [id \in DOMAIN store \ {problem_id} |-> store[id]]
                 ELSE store
     /\ faults' = Fault(dbOk)
     /\ UNCHANGED <<file, fileExists, owner, uploadVars, taskVars, writes>>
     /\ UNCHANGED <<call, users, solve_tasks, gptVars>>

\* The bodies of the PATCH requests: a status, a list of expressions, a field
\* that may not be updated.
PatchBodies ==
  { [status |-> "completed"],
    [math_expressions |-> << <<"x", "=", "1">> >>],
    [page_number |-> 7] }

\* problems.py, lines 273-310, the whole handler with its response.
update_problem_status_answered(uid, user_id, problem_id, update_data) ==
  LET e == check_path_and_owner(store, uid, user_id, problem_id,
                                "You can only update your own problems")
      allowed_fields == {"status", "extracted_text", "math_expressions"}
      filtered_update ==
        [k \in DOMAIN update_data \cap allowed_fields |-> update_data[k]]
      e2 == IF e.class # "none" THEN e
            ELSE IF DOMAIN filtered_update = {}
            THEN RaisedHTTP(400, "No valid fields to update")
            ELSE NoException
      r == update_problem(store, problem_id, filtered_update, TRUE)
  IN /\ Answer(Request("update_problem_status", uid, user_id, problem_id),
               IF e2.class # "none"
               THEN problems_except(e2, "Failed to update problem: ")
               ELSE Ok([message |-> "updated successfully", problem_id |-> problem_id,
                        updated_fields |-> DOMAIN filtered_update]))
     /\ store' = IF e2.class = "none" THEN r.store ELSE store
     /\ UNCHANGED <<file, fileExists, owner, uploadVars, taskVars, writes, faults>>
     /\ UNCHANGED <<call, users, solutions, solve_tasks, gptVars>>

\* solve.py, lines 99-148: the solutions made for the expressions, as they are
\* stored once update_solution has set them to solving.
new_solutions(uid, problem_id, math_expressions, made) ==
  [i \in 1..Len(math_expressions) |->
     [id |-> uuid4(100 + made + i), problem_id |-> problem_id, user_id |-> uid,
      math_expression |-> math_expressions[i], status |-> "solving"]]

\* solve.py, lines 77-168; saved is FALSE when save_solution raises, which is
\* only printed.
solve_problem(uid, problem_id, saved) ==
  LET e == check_owner(store, problem_id, uid)
      math_expressions == Get(store[problem_id], "math_expressions", <<>>)
      e2 == IF e.class # "none" THEN e
            ELSE IF math_expressions = <<>>
            THEN ValidationError("No math expressions found in the problem")
            ELSE NoException
      made == new_solutions(uid, problem_id, math_expressions, Len(solve_tasks))
  IN /\ MayFail(saved)
     /\ e2.class # "none" => saved
     /\ Answer(Request("solve_problem", uid, uid, problem_id),
               IF e2.class # "none" THEN solve_except(e2) ELSE Ok(made[1]))
     /\ solutions' =
          IF e2.class = "none" /\ saved
          THEN [id \in {made[i].id : i \in 1..Len(made)} |->
                  made[CHOOSE i \in 1..Len(made) : made[i].id = id]] @@ solutions
          ELSE solutions
     /\ solve_tasks' =
          IF e2.class = "none"
          THEN solve_tasks \o [i \in 1..Len(made) |->
                                 <<made[i].id, problem_id, uid, made[i].math_expression>>]
          ELSE solve_tasks
     /\ faults' = Fault(saved)
     /\ UNCHANGED <<file, fileExists, owner, store, uploadVars, taskVars, writes>>
     /\ UNCHANGED <<call, users, gptVars>>

\* The upload of the endpoint model is a PDF of one page of text.
ApiNext ==
  \/ \E f \in {[valid |-> TRUE, pages |-> <<TextPage>>]} :
       upload_pdf_save_file("u1", UploadRequest(<<"a", ".", "p", "d", "f">>, 0), f, TRUE)
  \/ upload_pdf_create_problem(TRUE)
  \/ upload_pdf_add_task
  \/ upload_pdf_mark_processing(TRUE)
  \/ upload_pdf_return
  \/ convert_open
  \/ convert_page
  \/ convert_return
  \/ process_page(TRUE, TRUE)
  \/ remove_file(TRUE)
  \/ \E u \in Users, p \in RequestIds : get_upload_status(u, p)
  \/ \E u \in Users, p \in RequestIds : preview_problem_content(u, p)
  \/ \E u \in Users, ids \in UNION {[1..n -> RequestIds] : n \in 0..2} :
       preview_multiple_problems(u, ids)
  \/ \E u \in Users, v \in Users, p \in RequestIds : get_problem_details(u, v, p)
  \/ \E u \in Users, v \in Users, p \in RequestIds, dbOk \in BOOLEAN :
       delete_problem(u, v, p, dbOk)
  \/ \E u \in Users, v \in Users, p \in RequestIds, d \in PatchBodies :
       update_problem_status_answered(u, v, p, d)
  \/ \E u \in Users, p \in RequestIds, saved \in BOOLEAN : solve_problem(u, p, saved)

ApiSpec == Init /\ [][ApiNext]_vars

-----------------------------------------------------------------------------
(* services/gpt_oss_service.py: GPTOSSService.  The coroutines run on one   *)
(* event loop and give way to each other where they await; _run_inference  *)
(* runs on a thread of the executor, beside the event loop.                *)

\* The state of the service changes, nothing else does.
GptStep == UNCHANGED <<pipelineVars, call, apiVars>>

\* Lines 77-82 and 139-141: solve_problem calls _generate_response, which awaits
\* _load_model.
gpt_solve_problem(c) ==
  /\ gpc[c] = "idle"
  /\ gpc' = [gpc EXCEPT ![c] = "load_model"]
  /\ UNCHANGED <<llama_model, model_lock, upc_unload, constructed, unloads>>
  /\ GptStep

\* Line 38: the first test of _load_model.
load_model_test(c) ==
  /\ gpc[c] = "load_model"
  /\ gpc' = [gpc EXCEPT ![c] = IF llama_model = "None" THEN "acquire" ELSE "loaded"]
  /\ UNCHANGED <<llama_model, model_lock, upc_unload, constructed, unloads>>
  /\ GptStep

\* Line 39: async with self._model_lock; the coroutine waits while the lock is
\* held.
load_model_acquire(c) ==
  /\ gpc[c] = "acquire"
  /\ model_lock = Unlocked
  /\ model_lock' = c
  /\ gpc' = [gpc EXCEPT ![c] = "locked"]
  /\ UNCHANGED <<llama_model, upc_unload, constructed, unloads>>
  /\ GptStep

\* Mutant: the model is constructed without the second test.
load_after_lock_always(model) == TRUE

\* Line 40: the test repeated under the lock.
load_after_lock(model) == model = "None"

\* Lines 40-54 and the end of the with block: Llama(...) returns the model or
\* raises, which leaves _load_model as MathSolvingError; the lock is released.
load_model_locked(c, ok) ==
  /\ gpc[c] = "locked"
  /\ model_lock = c
  /\ IF load_after_lock(llama_model)
     THEN IF ok
          THEN /\ llama_model' = "Llama"
               /\ constructed' = constructed + 1
               /\ gpc' = [gpc EXCEPT ![c] = "loaded"]
          ELSE /\ gpc' = [gpc EXCEPT ![c] = "raised"]
               /\ UNCHANGED <<llama_model, constructed>>
     ELSE /\ ok
          /\ gpc' = [gpc EXCEPT ![c] = "loaded"]
          /\ UNCHANGED <<llama_model, constructed>>
  /\ model_lock' = Unlocked
  /\ UNCHANGED <<upc_unload, unloads>>
  /\ GptStep

\* Lines 143-153: _load_model has returned; _run_inference is handed to the
\* executor and the coroutine awaits its result.
run_in_executor(c) ==
  /\ gpc[c] = "loaded"
  /\ gpc' = [gpc EXCEPT ![c] = "submitted"]
  /\ UNCHANGED <<llama_model, model_lock, upc_unload, constructed, unloads>>
  /\ GptStep

\* Lines 161-163, on the executor's thread: the test of self.llama_model.
run_inference_test(c) ==
  /\ gpc[c] = "submitted"
  /\ gpc' = [gpc EXCEPT ![c] =
               IF llama_model = "None" THEN "model_not_loaded" ELSE "inference"]
  /\ UNCHANGED <<llama_model, model_lock, upc_unload, constructed, unloads>>
  /\ GptStep

\* Lines 165-180, on the executor's thread: self.llama_model is read again and
\* called; calling None raises TypeError, reported as 'Inference failed'.
run_inference_call(c) ==
  /\ gpc[c] = "inference"
  /\ gpc' = [gpc EXCEPT ![c] =
               IF llama_model = "None" THEN "inference_failed" ELSE "returned"]
  /\ UNCHANGED <<llama_model, model_lock, upc_unload, constructed, unloads>>
  /\ GptStep

\* Line 219: unload_model waits for the lock.
unload_model_acquire ==
  /\ upc_unload = "idle"
  /\ unloads < MaxUnloads
  /\ model_lock = Unlocked
  /\ model_lock' = Unloader
  /\ upc_unload' = "locked"
  /\ UNCHANGED <<llama_model, gpc, constructed, unloads>>
  /\ GptStep

\* Lines 220-223 and the end of the with block.
unload_model_locked ==
  /\ upc_unload = "locked"
  /\ llama_model' = "None"
  /\ model_lock' = Unlocked
  /\ upc_unload' = "idle"
  /\ constructed' = 0
  /\ unloads' = unloads + 1
  /\ UNCHANGED gpc
  /\ GptStep

GptNext ==
  \/ \E c \in Callers : gpt_solve_problem(c)
  \/ \E c \in Callers : load_model_test(c)
  \/ \E c \in Callers : load_model_acquire(c)
  \/ \E c \in Callers, ok \in BOOLEAN : load_model_locked(c, ok)
  \/ \E c \in Callers : run_in_executor(c)
  \/ \E c \in Callers : run_inference_test(c)
  \/ \E c \in Callers : run_inference_call(c)
  \/ unload_model_acquire
  \/ unload_model_locked

GptSpec == Init /\ [][GptNext]_vars

-----------------------------------------------------------------------------
(* Vocabulary of the properties.                                           *)

Blank(t) == \A i \in 1..Len(t) : t[i] \in Whitespace

\* The task caught the OCRError that convert_pdf_to_markdown raised.
ConversionRaised == exc.class = "OCRError"

\* Recognition on the page raises or reads nothing.
OcrReadsNothing(page) ==
  \/ page.pixmap_raises
  \/ \E k \in 1..3 :
       /\ page.ocr[k].raises
       /\ \A m \in 1..(k - 1) : ~page.ocr[m].raises /\ Blank(page.ocr[m].text)
  \/ \A k \in 1..3 : ~page.ocr[k].raises /\ Blank(page.ocr[k].text)

\* A page with a blank text layer on which recognition raises or reads nothing.
EmptyScan(page) ==
  ~page.get_text.raises /\ Blank(page.get_text.text) /\ OcrReadsNothing(page)

\* The positions in the history of the calls the background task made.
TaskCalls == {n \in 1..Len(writes) : writes[n].by # "upload"}
TaskCallsFor(problem_id) == {n \in TaskCalls : writes[n].id = problem_id}
TerminalCalls == {n \in TaskCalls : writes[n].data.status \in Terminal}
CallsBy(by) == SelectSeq(writes, LAMBDA w : w.by = by)

-----------------------------------------------------------------------------
(* Properties.                                                             *)

\* C1: when get_text raises on page k, every other page of the document is still
\* written completed with its own markdown and is never written failed.
C1_PageFailureStaysLocal ==
  (tpc = "done" /\ ConversionRaised) =>
    \A j \in 1..Len(problem_ids) :
      (/\ j <= Len(file.pages)
       /\ ~file.pages[j].get_text.raises
       /\ \E k \in 1..Len(file.pages) : k # j /\ file.pages[k].get_text.raises)
      => /\ \E n \in TaskCallsFor(problem_ids[j]) :
              writes[n].data = page_update_data(page_markdown(file.pages[j]))
         /\ \A n \in TaskCallsFor(problem_ids[j]) : writes[n].data.status # "failed"

\* C2: when the background task has ended, every record it was handed has been
\* given a terminal status by a write the store accepted.
C2_EveryRecordReachesTerminal ==
  tpc = "done" =>
    \A i \in 1..Len(problem_ids) :
      problem_ids[i] \in DOMAIN store =>
        \E n \in TaskCallsFor(problem_ids[i]) :
          writes[n].ok /\ writes[n].data.status \in Terminal

\* C3: once the background task has given a record the status completed or
\* failed, no step changes the stored status of that record.
C3_TerminalStatusIsFinal ==
  [][\A p \in DOMAIN store :
       (/\ store[p].status \in Terminal
        /\ \E n \in TaskCallsFor(p) : writes[n].ok /\ writes[n].data.status \in Terminal)
       => store'[p].status = store[p].status]_vars

\* C4: each page write the store refuses is followed by exactly one corrective
\* write to the same id, which sets failed and an error message.
C4_OneCorrectiveWrite ==
  \A n \in 1..Len(writes) :
    (writes[n].by = "page" /\ ~writes[n].ok) =>
      /\ Cardinality({m \in TaskCallsFor(writes[n].id) :
                        writes[m].by = "corrective"}) = 1
      /\ \A m \in TaskCallsFor(writes[n].id) :
           writes[m].by = "corrective" =>
             /\ m > n
             /\ writes[m].data.status = "failed"
             /\ writes[m].data.error_message # ""

\* C5: when the background task has ended, normally or through its handler after
\* the conversion raised, the local file is gone.
C5_FileRemovedAtEnd ==
  (tpc = "done" /\ exc.class \in {"none", "OCRError"}) => ~fileExists

\* C6: the step that removes the local file finds every record of the document
\* completed or failed.
C6_RemovedOnlyWhenAllTerminal ==
  [][(fileExists /\ ~fileExists') =>
       \A i \in 1..Len(problem_ids) :
         problem_ids[i] \in DOMAIN store => store[problem_ids[i]].status \in Terminal]_vars

\* C7: when the conversion raised and the store accepted the handler's writes, the
\* handler has written failed to every problem id, once each and in order, with one
\* non-empty error message, and that message is what the records hold.
C7_ConversionFailureFailsAll ==
  (tpc = "done" /\ ConversionRaised
   /\ \A n \in TaskCalls : writes[n].ok) =>
    LET hw == CallsBy("handler") IN
    /\ TaskCalls = {n \in 1..Len(writes) : writes[n].by = "handler"}
    /\ Len(hw) = Len(problem_ids)
    /\ \A i \in 1..Len(hw) :
         /\ hw[i].id = problem_ids[i]
         /\ hw[i].data.status = "failed"
         /\ hw[i].data.error_message # ""
         /\ hw[i].data.error_message = hw[1].data.error_message
         /\ store[problem_ids[i]].error_message = hw[i].data.error_message

\* C7 witness: a conversion that raised on a document with two records or more,
\* every one of them written by the handler.
C7_Witness ==
  /\ tpc = "done"
  /\ ConversionRaised
  /\ Len(problem_ids) >= 2
  /\ \A n \in TaskCalls : writes[n].ok
  /\ Len(CallsBy("handler")) = Len(problem_ids)

\* C8: on a document whose conversion succeeds and whose writes the store accepts,
\* the task makes exactly one terminal write per page, all completed.
C8_OneCompletedWritePerPage ==
  (tpc = "done" /\ ~ConversionRaised
   /\ \A n \in TaskCalls : writes[n].ok) =>
    /\ Cardinality(TerminalCalls) = Len(file.pages)
    /\ \A i \in 1..Len(problem_ids) :
         Cardinality(TerminalCalls \cap TaskCallsFor(problem_ids[i])) = 1
    /\ \A n \in TerminalCalls : writes[n].data.status = "completed"

\* C9: when the task has ended, the records created, the pages of the PDF and the
\* terminal writes of the task are equally many.
C9_PagesRecordsWritesAgree ==
  tpc = "done" =>
    /\ Len(problem_ids) = Len(file.pages)
    /\ Cardinality(TerminalCalls) = Len(problem_ids)

C11_WriteDoesNotWaitForLaterPages ==
  \A i \in 1..Len(page_results) :
    (i < Len(page_results) /\ i <= Len(problem_ids)) =>
      \E n \in TaskCallsFor(problem_ids[i]) : writes[n].by = "page"

\* C12: a page write the store refuses does not make the task raise, so the task
\* reaches its handler only with an exception of the conversion or of the file
\* removal; and every page after the refused one is still written, completed and
\* with its own markdown.
C12_RefusedWriteDoesNotStopTask ==
  /\ tpc = "handler" => exc # NoException
  /\ \A k, j \in 1..Len(problem_ids) :
       (/\ k < j
        /\ j <= Len(page_results)
        /\ tpc \in {"pages", "handler", "done"}
        /\ tpc = "pages" => j <= idx
        /\ \E n \in TaskCallsFor(problem_ids[k]) : writes[n].by = "page" /\ ~writes[n].ok)
       => \E m \in TaskCallsFor(problem_ids[j]) :
            /\ writes[m].by = "page"
            /\ writes[m].data =
                 [markdown_content |-> page_markdown(file.pages[j]),
                  status |-> "completed"]

\* C12 witness: the task ended without an exception after the store refused the
\* write of page 1 and accepted the write of page 2.
C12_Witness ==
  /\ tpc = "done"
  /\ exc = NoException
  /\ Len(problem_ids) = 2
  /\ \E n \in TaskCallsFor(problem_ids[1]) : writes[n].by = "page" /\ ~writes[n].ok
  /\ \E m \in TaskCallsFor(problem_ids[2]) : writes[m].by = "page" /\ writes[m].ok
  /\ problem_ids[1] \in DOMAIN store
  /\ store[problem_ids[1]].status = "processing"
  /\ store[problem_ids[2]].status = "completed"

\* C19: upload_pdf has made all of its processing writes before the background
\* task makes any write, so every completed or failed write of the task comes
\* after the processing write for the same problem and no processing write
\* follows it.
C19_ProcessingBeforeTerminal ==
  /\ upc # "responded" => TaskCalls = {}
  /\ \A m \in TaskCalls : \A n \in 1..Len(writes) : writes[n].by = "upload" => n < m
  /\ \A m \in TerminalCalls :
       \E n \in 1..(m - 1) :
         /\ writes[n].by = "upload"
         /\ writes[n].id = writes[m].id
         /\ writes[n].data.status = "processing"

\* C19 witness: two records were marked processing and then written by the task,
\* every write accepted.
C19_Witness ==
  /\ tpc = "done"
  /\ Len(problem_ids) = 2
  /\ \A n \in 1..Len(writes) : writes[n].ok
  /\ \A i \in 1..2 :
       \E n, m \in 1..Len(writes) :
         /\ n < m
         /\ writes[n] = Call("upload", problem_ids[i], [status |-> "processing"], TRUE)
         /\ m \in TerminalCalls
         /\ writes[m].id = problem_ids[i]

\* A call of _ocr_page that has been entered, on a page whose text layer is blank.
OcrEntered == call.fn = "page_text" /\ call.pixmap

\* C13: _ocr_page never raises; when it has returned it has returned a text; and
\* when get_pixmap or an image_to_string call raised, the text is empty and the
\* raising call is the last one made.
C13_OcrPageNeverRaises ==
  OcrEntered =>
    /\ call.pc \in {"image_to_string", "returned"}
    /\ call.pc = "returned" => ~call.ocr.raises /\ call.page_text = call.ocr.text
    /\ call.page.pixmap_raises =>
         call.pc = "returned" /\ call.ocr.text = <<>> /\ call.calls = <<>>
    /\ \A k \in 1..Len(call.calls) :
         call.page.ocr[k].raises =>
           /\ k = Len(call.calls)
           /\ call.pc = "returned"
           /\ call.ocr.text = <<>>

\* C13 witness: the second configuration raised on a page the third one would
\* have read; "" was returned after two calls.
C13_Witness ==
  /\ OcrEntered
  /\ call.pc = "returned"
  /\ call.calls = <<OcrConfig[1], OcrConfig[2]>>
  /\ call.page.ocr[2].raises
  /\ ~call.page.ocr[3].raises /\ ~Blank(call.page.ocr[3].text)
  /\ call.page_text = <<>>

\* C20: _ocr_page is entered only on a blank text layer; its calls are the three
\* configurations in order, each made only after every earlier one returned blank
\* text; the text returned is the output of the first configuration that read a
\* text that is not blank, and is blank when none did; it is the text the
\* conversion of an upload uses for the page.
C20_OcrLadder ==
  call.fn = "page_text" =>
    /\ (call.pixmap \/ call.pc = "get_pixmap") =>
         ~call.page.get_text.raises /\ Blank(call.page.get_text.text)
    /\ (call.pc = "returned" /\ ~call.pixmap) =>
         /\ ~Blank(call.page.get_text.text)
         /\ call.calls = <<>>
         /\ call.page_text = call.page.get_text.text
    /\ \A k \in 1..Len(call.calls) :
         /\ k <= 3
         /\ call.calls[k] = OcrConfig[k]
         /\ \A m \in 1..(k - 1) :
              ~call.page.ocr[m].raises /\ Blank(call.page.ocr[m].text)
    /\ (call.pc = "returned" /\ call.pixmap) =>
         LET read == {k \in 1..Len(call.calls) :
                        ~call.page.ocr[k].raises /\ ~Blank(call.page.ocr[k].text)}
         IN /\ \A k \in read :
                 (\A m \in read : k <= m) => call.page_text = call.page.ocr[k].text
            /\ read = {} => Blank(call.page_text)
            /\ call.page_text = ocr_page(call.page)

\* C20 witness: the first two configurations read blanks and the third one read
\* the text that was returned.
C20_Witness ==
  /\ OcrEntered
  /\ call.pc = "returned"
  /\ Len(call.calls) = 3
  /\ ~Blank(call.page_text)
  /\ call.page_text = call.page.ocr[3].text

\* The categories of a non-blank line in the order of the tests, and the rule of
\* each.
CategoryOrder == <<"header", "numbered", "lettered", "math", "list", "prose">>
Satisfies(category, lines, i) ==
  LET line == Strip(lines[i]) IN
  CASE category = "header" -> IsHeader(lines, i)
    [] category = "numbered" -> IsNumbered(line)
    [] category = "lettered" -> IsLettered(line)
    [] category = "math" -> contains_math(line)
    [] category = "list" -> IsListItem(line)
    [] category = "prose" -> TRUE

\* C14: every non-blank line gets one category, the first in the order header,
\* numbered, lettered, math, list, prose whose rule it satisfies; a line that
\* satisfies the header rule and the numbered or the math rule is rendered as a
\* header.
C14_FirstMatchingRuleWins ==
  call.fn = "_text_to_markdown" =>
    \A i \in 1..Len(call.lines) :
      LET line == Strip(call.lines[i]) IN
      line # <<>> =>
        /\ \E k \in 1..Len(CategoryOrder) :
             /\ call.categories[i] = CategoryOrder[k]
             /\ Satisfies(CategoryOrder[k], call.lines, i)
             /\ \A m \in 1..(k - 1) : ~Satisfies(CategoryOrder[m], call.lines, i)
        /\ (IsHeader(call.lines, i) /\ (IsNumbered(line) \/ contains_math(line))) =>
             call.markdown_lines[i] = <<"#", "#", " ">> \o line

\* C14 witness: one text holds a line that satisfies the header, numbered and math
\* rules and is a header, and a line that satisfies the lettered and math rules
\* and is a lettered item.
C14_Witness ==
  /\ call.fn = "_text_to_markdown"
  /\ \E i, j \in 1..Len(call.lines) :
       /\ IsHeader(call.lines, i)
       /\ IsNumbered(Strip(call.lines[i]))
       /\ contains_math(Strip(call.lines[i]))
       /\ call.categories[i] = "header"
       /\ IsLettered(Strip(call.lines[j]))
       /\ contains_math(Strip(call.lines[j]))
       /\ call.categories[j] = "lettered"

\* What is put before and after a line of each category.
MarkBefore(category) ==
  CASE category = "header" -> <<"#", "#", " ">>
    [] category = "numbered" -> <<"#", "#", "#", " ">>
    [] category = "lettered" -> <<"*", "*">>
    [] category = "math" -> <<"U+0060">>
    [] category = "list" -> <<"-", " ">>
    [] category = "prose" -> <<>>
MarkAfter(category) ==
  CASE category = "lettered" -> <<"*", "*">>
    [] category = "math" -> <<"U+0060">>
    [] OTHER -> <<>>

\* C15: a line is rendered by its category alone, with the marks of that category
\* around the trimmed line and a blank line as an empty line; "1) Solve for x"
\* is rendered "### 1) Solve for x" and "x^2 + 3x - 2 = 0" inside backquotes,
\* wherever they stand in the text, and as a text of their own.
C15_RenderedByCategory ==
  call.fn = "_text_to_markdown" =>
    /\ \A i \in 1..Len(call.lines) :
         LET line == Strip(call.lines[i]) IN
         /\ call.markdown_lines[i] =
              IF call.categories[i] = "blank" THEN <<>>
              ELSE MarkBefore(call.categories[i]) \o line \o MarkAfter(call.categories[i])
         /\ line = SolveForX =>
              call.markdown_lines[i] = <<"#", "#", "#", " ">> \o SolveForX
         /\ line = Quadratic =>
              call.markdown_lines[i] = <<"U+0060">> \o Quadratic \o <<"U+0060">>
    /\ call.text = SolveForX => call.result = <<"#", "#", "#", " ">> \o SolveForX
    /\ call.text = Quadratic => call.result = <<"U+0060">> \o Quadratic \o <<"U+0060">>

\* C15 witness: a text that holds a header, "1) Solve for x" as a numbered item,
\* an equation and a blank line.
C15_Witness ==
  /\ call.fn = "_text_to_markdown"
  /\ {call.categories[i] : i \in 1..Len(call.categories)} \cap
       {"header", "numbered", "math", "blank"} = {"header", "numbered", "math", "blank"}
  /\ \E i \in 1..Len(call.lines) : Strip(call.lines[i]) = SolveForX

\* C16: the markdown _text_to_markdown returns holds no three newlines in a row.
C16_NoThreeNewlines ==
  call.fn = "_text_to_markdown" => ~Contains(call.result, <<"\n", "\n", "\n">>)

\* C16 witness: the rendered lines, joined, held three newlines in a row between
\* two lines of text, and the markdown returned holds two.
C16_Witness ==
  /\ call.fn = "_text_to_markdown"
  /\ Contains(Strip(JoinLines(call.markdown_lines)), <<"\n", "\n", "\n">>)
  /\ Contains(call.result, <<"\n", "\n">>)

\* The pages from the k-th on, each under its header, with a rule between two
\* pages.
RECURSIVE PagesUnderHeaders(_, _)
PagesUnderHeaders(pages, k) ==
  <<"#", " ", "P", "a", "g", "e", " ">> \o Decimal(k) \o <<"\n", "\n">> \o page_markdown(pages[k])
  \o (IF k < Len(pages)
      THEN <<"\n", "\n", "-", "-", "-", "\n", "\n">> \o PagesUnderHeaders(pages, k + 1)
      ELSE <<>>)

\* C17: convert_single_pdf_to_markdown, when it returns, returns the markdown of
\* the page for a document of one page, the pages in order for a document of more
\* pages, each under the header "# Page k" and with "---" between two of them, and
\* "*(No content found)*" for a document without pages.
C17_SingleDocumentLayout ==
  (call.fn = "convert_single_pdf_to_markdown" /\ ~call.outcome.raises) =>
    LET pages == call.file.pages IN
    call.outcome.value =
      IF Len(pages) = 0 THEN NoContentFound
      ELSE IF Len(pages) = 1 THEN page_markdown(pages[1])
      ELSE PagesUnderHeaders(pages, 1)

\* C17 witness: a document of three pages, a page of text first, was returned
\* with a rule before the header of page 3 and nothing after page 3.
C17_Witness ==
  /\ call.fn = "convert_single_pdf_to_markdown"
  /\ ~call.outcome.raises
  /\ Len(call.file.pages) = 3
  /\ call.file.pages[1] = TextPage
  /\ call.file.pages[3] = OcrNothingPage
  /\ Contains(call.outcome.value,
              <<"-", "-", "-", "\n", "\n">> \o <<"#", " ", "P", "a", "g", "e", " ">> \o <<"3", "\n", "\n">> \o EmptyPage)
  /\ call.outcome.value[Len(call.outcome.value)] = "*"

\* The expression is not parsed or the equation not solved: an equation that has
\* not two sides or a side that sympify refuses, an expression that sympify
\* refuses.
ParseOrSolveFails ==
  LET cleaned_expr == clean_expression(call.expression) IN
  IF Contains(cleaned_expr, <<"=">>)
  THEN CountParts(cleaned_expr) # 2 \/ call.sympy.sympify_raises # {}
  ELSE 1 \in call.sympy.sympify_raises

\* C18: solve_expression returns, never raises, and the result holds a
\* final_answer that is not None; when the expression is not parsed or the
\* equation not solved, final_answer and solution_steps say so.
C18_SolveExpressionAlwaysAnswers ==
  call.fn = "solve_expression" =>
    /\ ~call.outcome.raises
    /\ "final_answer" \in DOMAIN call.outcome.value
    /\ ~call.outcome.value.final_answer.null
    /\ ParseOrSolveFails =>
         /\ call.outcome.value.final_answer.str \in
              {"Unable to parse expression", "Could not solve equation"}
         /\ call.outcome.value.solution_steps # <<>>

\* C18 witness: "a = b = c" is no equation of two sides; the call returned
\* "Could not solve equation".
C18_Witness ==
  /\ call.fn = "solve_expression"
  /\ CountParts(clean_expression(call.expression)) = 3
  /\ ~call.outcome.raises
  /\ call.outcome.value.final_answer = PyStr("Could not solve equation")

\* The line starts with the characters of the header prefix "## ".
HasHeaderPrefix(rendered) ==
  Len(rendered) >= 3 /\ SubSeq(rendered, 1, 3) = <<"#", "#", " ">>

\* C21: a line is a header only if it has fewer than 100 characters, is not the
\* last line and the line after it is not blank; the last line of a page and a
\* line followed by a blank line are never rendered with the prefix "## ",
\* whatever they hold, and "QUESTION 1" followed by a non-blank line is
\* rendered as "## QUESTION 1".
C21_HeaderNeedsFollowingLine ==
  call.fn = "_text_to_markdown" =>
    \A i \in 1..Len(call.lines) :
      LET line == Strip(call.lines[i])
          last == i = Len(call.lines)
          room == Len(line) < 100 /\ ~last /\ ~Blank(call.lines[i + 1])
      IN /\ call.categories[i] = "header" => room
         /\ HasHeaderPrefix(call.markdown_lines[i]) => room
         /\ (line = Question1 /\ ~last /\ ~Blank(call.lines[i + 1])) =>
              call.markdown_lines[i] = <<"#", "#", " ">> \o Question1

\* C21 witness: of two lines "QUESTION 1" the first is rendered as a header and
\* the second, the last line of the text, is not.
C21_Witness ==
  /\ call.fn = "_text_to_markdown"
  /\ call.lines = <<Question1, Question1>>
  /\ call.markdown_lines[1] = <<"#", "#", " ">> \o Question1
  /\ ~HasHeaderPrefix(call.markdown_lines[2])

\* An upper-case line of 100 characters before an equation is no header.
C21_WitnessLong ==
  /\ call.fn = "_text_to_markdown"
  /\ Len(call.lines) = 2
  /\ Len(call.lines[1]) = 100
  /\ IsUpper(call.lines[1])
  /\ call.categories[1] # "header"

\* The request fails the validation as the specification words it: no file
\* name, a name that does not end in .pdf in any letter case, a size above
\* MAX_FILE_SIZE.
FailsValidation(rq) ==
  \/ rq.filename = <<>>
  \/ Len(rq.filename) < 4
  \/ \E i \in 1..4 :
       LowerChar(rq.filename[Len(rq.filename) - 4 + i]) # <<".", "p", "d", "f">>[i]
  \/ rq.size > 10485760

\* C30: an upload request that fails validation is answered with status 400 and
\* changes nothing: no user record, no file in the upload directory, no problem
\* record, no background task.
C30_RejectedUploadChangesNothing ==
  [][(upc = "idle" /\ upc' # "idle" /\ FailsValidation(request')) =>
       /\ response'.status_code = 400
       /\ UNCHANGED <<users, file, fileExists, store, problem_ids, tpc, writes,
                      solutions, solve_tasks>>]_vars

\* C30 witness: a PDF above the maximum size has been rejected with status 400.
C30_Witness ==
  /\ upc = "rejected"
  /\ request.size > MAX_FILE_SIZE
  /\ EndsWith(request.filename, DotPdf)
  /\ response.status_code = 400
  /\ users = {} /\ ~fileExists /\ store = <<>> /\ tpc = "none"

\* C28: every problem id in the response of upload_pdf is the id of a record of
\* the store, also when save_problem raised for its page.
C28_ReturnedIdsAreStored ==
  upc = "responded" =>
    \A k \in 1..Len(problem_ids) : problem_ids[k] \in DOMAIN store

\* The page loop's writes, by their position in the history.
PageWrites == {n \in 1..Len(writes) : writes[n].by = "page"}

\* C29: the id returned for page k, the k-th id created, is the id whose record
\* gets the markdown of page k: the k-th page result holds the rendering of page
\* k, every write of the page loop to the k-th id carries it, and so does the
\* record.
C29_PageGoesToItsRecord ==
  /\ \A k \in 1..Len(page_results) :
       page_results[k] = <<k, page_markdown(file.pages[k])>>
  /\ \A n \in PageWrites :
       \E k \in 1..Len(problem_ids) :
         /\ writes[n].id = problem_ids[k]
         /\ k <= Len(file.pages)
         /\ writes[n].data.markdown_content = page_markdown(file.pages[k])
         /\ \A j \in 1..Len(problem_ids) : problem_ids[j] = problem_ids[k] => j = k
  /\ \A k \in 1..Len(problem_ids) :
       (problem_ids[k] \in DOMAIN store
          /\ "markdown_content" \in DOMAIN store[problem_ids[k]]) =>
         /\ k <= Len(file.pages)
         /\ store[problem_ids[k]].markdown_content = page_markdown(file.pages[k])

\* C29 witness: the task has written two pages with different renderings, each
\* to its own record.
C29_Witness ==
  /\ tpc = "done"
  /\ Len(problem_ids) = 2
  /\ Len(file.pages) = 2
  /\ ~ConversionRaised
  /\ \A k \in 1..2 : ~file.pages[k].get_text.raises
  /\ page_markdown(file.pages[1]) # page_markdown(file.pages[2])
  /\ \A k \in 1..2 :
       /\ problem_ids[k] \in DOMAIN store
       /\ "markdown_content" \in DOMAIN store[problem_ids[k]]
       /\ store[problem_ids[k]].markdown_content = page_markdown(file.pages[k])

\* A request to the status, preview, problem or solve endpoints is answered in
\* this step.
Answered == requests' = requests + 1

\* The record the answered request names exists and belongs to another user
\* than the caller.
ForeignRecord(problem_id) ==
  problem_id \in DOMAIN store /\ store[problem_id].user_id # request'.uid

\* C22: when the preview reports a problem of the upload pipeline as ready to
\* solve (markdown_content present, status completed), POST /solve by its owner
\* is answered with a solution, stores at least one solution record of the
\* problem and adds its solving task.
C22_ReadyProblemIsSolvable ==
  [][(/\ Answered
      /\ request'.endpoint = "solve_problem"
      /\ request'.problem_id \in DOMAIN store
      /\ store[request'.problem_id].user_id = request'.uid
      /\ is_ready_to_solve(store[request'.problem_id])
      /\ faults' = faults) =>
       /\ response'.status_code = 200
       /\ \E s \in DOMAIN solutions' \ DOMAIN solutions :
            solutions'[s].problem_id = request'.problem_id
       /\ Len(solve_tasks') > Len(solve_tasks)]_vars

\* C25: a request for a record of another user is answered with access denied
\* and none of the record's fields, by upload status, preview, problem details
\* and solve with status 403 and no body, by the multiple preview with an entry
\* that holds the id and the error only.
C25_NonOwnerIsDenied ==
  [][Answered =>
       /\ (/\ request'.endpoint \in {"get_upload_status", "preview_problem_content",
                                      "get_problem_details", "solve_problem"}
           /\ ForeignRecord(request'.problem_id)) =>
            /\ response'.status_code = 403
            /\ "body" \notin DOMAIN response'
       /\ request'.endpoint = "preview_multiple_problems" =>
            \A i \in 1..Len(request'.problem_id) :
              ForeignRecord(request'.problem_id[i]) =>
                response'.body.problems[i] =
                  [problem_id |-> request'.problem_id[i], error |-> "Access denied"]]_vars

\* The part of C25 that holds: no answer to a request for a record of another
\* user carries a field of the record.
NonOwnerSeesNoField ==
  [][Answered =>
       /\ (/\ request'.endpoint \in {"get_upload_status", "preview_problem_content",
                                      "get_problem_details", "solve_problem"}
           /\ ForeignRecord(request'.problem_id)) =>
            /\ response'.status_code \in {403, 500}
            /\ "body" \notin DOMAIN response'
       /\ request'.endpoint = "preview_multiple_problems" =>
            \A i \in 1..Len(request'.problem_id) :
              ForeignRecord(request'.problem_id[i]) =>
                DOMAIN response'.body.problems[i] = {"problem_id", "error"}]_vars

\* C26: GET, DELETE and PATCH on /problems/{user_id}/{problem_id} and POST
\* /solve/{problem_id} answer 404 when the problem is not in the store (the path
\* naming the caller) and 403 when the record belongs to another user.
C26_MissingIs404ForeignIs403 ==
  [][(/\ Answered
      /\ request'.endpoint \in {"get_problem_details", "delete_problem",
                                "update_problem_status", "solve_problem"}) =>
       /\ (request'.uid = request'.user_id /\ request'.problem_id \notin DOMAIN store) =>
            response'.status_code = 404
       /\ ForeignRecord(request'.problem_id) => response'.status_code = 403]_vars

\* C27: once DELETE has answered with its success message, the store holds
\* neither the problem record nor a solution record of that problem.
C27_DeleteLeavesNothing ==
  [][(/\ Answered
      /\ request'.endpoint = "delete_problem"
      /\ response'.status_code = 200) =>
       /\ request'.problem_id \notin DOMAIN store'
       /\ \A s \in DOMAIN solutions' :
            solutions'[s].problem_id # request'.problem_id]_vars

\* The caller's _load_model has returned.
LoadCompleted(c) ==
  gpc[c] \in {"loaded", "submitted", "inference", "model_not_loaded",
              "inference_failed", "returned"}

\* C23: in every interleaving of solve_problem calls with unload_model, a call
\* whose _load_model has returned runs its inference on a loaded model: no call
\* raises 'Model not loaded' in _run_inference.
C23_ModelNotLoadedUnreachable ==
  \A c \in Callers : gpc[c] # "model_not_loaded"

\* C24: between two calls of unload_model the model is constructed at most
\* once, whatever the number of concurrent solve_problem calls, and no caller
\* constructs it while it is loaded.
C24_ConstructedAtMostOnce ==
  /\ [](constructed <= 1)
  /\ [][constructed' > constructed => llama_model = "None"]_vars

\* C24 witness: an unload_model has run, all calls have passed _load_model and
\* one model has been constructed since the unload.
C24_Witness ==
  /\ unloads = 1
  /\ upc_unload = "idle"
  /\ constructed = 1
  /\ llama_model = "Llama"
  /\ \A c \in Callers : LoadCompleted(c)

====
